---------------------------- MODULE Spec2Model ----------------------------
(***************************************************************************)
(* A model of the flounder chess engine: the killer-move table, the        *)
(* iterative-deepening negamax search, the UCI go handler and the legal    *)
(* move generator.                                                         *)
(***************************************************************************)
EXTENDS Integers, Sequences, FiniteSets, TLC

(***************************************************************************)
(* Option<T>: None is the empty sequence, Some(x) the one-element one.     *)
(***************************************************************************)
None == << >>

Some(x) == <<x>>

(***************************************************************************)
(* moves::Move as the sources construct it: Move::new(from, to, piece,     *)
(* move_type).                                                             *)
(***************************************************************************)
Move_new(from, to, piece_type, move_type) ==
    [from |-> from, to |-> to, piece_type |-> piece_type, move_type |-> move_type]

(***************************************************************************)
(*                      killer_moves.rs : KillerMoves                      *)
(***************************************************************************)
MAX_DEPTH == 64

KILLERS_PER_PLY == 2

\* Number of distinct test moves the killer-table operations are driven with.
NumTestMoves == 3

\* tests::create_test_move
create_test_move(from, to) == Move_new(from, to, "Pawn", "Quiet")

TestMoves == { create_test_move(8 + i, 16 + i) : i \in 0 .. NumTestMoves - 1 }

\* The plies (u8) the killer-table operations are driven with: the first
\* ply, the last valid one, the first invalid one and the largest u8.
TestPlies == {0, MAX_DEPTH - 1, MAX_DEPTH, 255}

VARIABLES
    killer_moves,   \* KillerMoves.moves: [[Option<Move>; 2]; 64]
    klast,          \* the last killer-table operation applied
    kprev           \* the table before that operation

kvars == <<killer_moves, klast, kprev>>

\* KillerMoves::new
KillerMoves_new == [p \in 0 .. MAX_DEPTH - 1 |-> [i \in 1 .. KILLERS_PER_PLY |-> None]]

\* KillerMoves::is_valid_ply
is_valid_ply(ply) == ply < MAX_DEPTH

\* KillerMoves::shift_and_insert with the shift left out
shift_and_insert_noshift(table, ply_idx, mv) ==
    [table EXCEPT ![ply_idx] = [i \in 1 .. KILLERS_PER_PLY |->
        IF i = 1 THEN Some(mv) ELSE table[ply_idx][i]]]

\* KillerMoves::shift_and_insert
shift_and_insert(table, ply_idx, mv) ==
    [table EXCEPT ![ply_idx] = [i \in 1 .. KILLERS_PER_PLY |->
        IF i = 1 THEN Some(mv) ELSE table[ply_idx][i - 1]]]

\* KillerMoves::store without the primary-killer test
KillerMoves_store_always(table, mv, ply) ==
    IF ~is_valid_ply(ply) THEN table
    ELSE shift_and_insert(table, ply, mv)

\* KillerMoves::store
KillerMoves_store(table, mv, ply) ==
    IF ~is_valid_ply(ply) THEN table
    ELSE IF table[ply][1] = Some(mv) THEN table
    ELSE shift_and_insert(table, ply, mv)

\* KillerMoves::is_killer
is_killer(table, mv, ply) ==
    IF ~is_valid_ply(ply) THEN FALSE
    ELSE \E i \in 1 .. KILLERS_PER_PLY : table[ply][i] = Some(mv)

\* KillerMoves::get_killers with an invalid ply taken as the last valid one
get_killers_saturating(table, ply) ==
    IF ~is_valid_ply(ply) THEN table[MAX_DEPTH - 1]
    ELSE table[ply]

\* KillerMoves::get_killers
get_killers(table, ply) ==
    IF ~is_valid_ply(ply) THEN << >>
    ELSE table[ply]

\* KillerMoves::clear
KillerMoves_clear(table) == KillerMoves_new

\* KillerMoves::clear_ply assigning the whole array
KillerMoves_clear_ply_all(table, ply) ==
    IF is_valid_ply(ply)
    THEN [p \in 0 .. MAX_DEPTH - 1 |-> [i \in 1 .. KILLERS_PER_PLY |-> None]]
    ELSE table

\* KillerMoves::clear_ply
KillerMoves_clear_ply(table, ply) ==
    IF is_valid_ply(ply)
    THEN [table EXCEPT ![ply] = [i \in 1 .. KILLERS_PER_PLY |-> None]]
    ELSE table

KGhostInit ==
    /\ klast = [op |-> "new", mv |-> create_test_move(0, 0), ply |-> 0]
    /\ kprev = KillerMoves_new

KStore(mv, ply) ==
    /\ killer_moves' = KillerMoves_store(killer_moves, mv, ply)
    /\ klast' = [op |-> "store", mv |-> mv, ply |-> ply]
    /\ kprev' = killer_moves

KClear ==
    /\ killer_moves' = KillerMoves_clear(killer_moves)
    /\ klast' = [op |-> "clear", mv |-> create_test_move(0, 0), ply |-> 0]
    /\ kprev' = killer_moves

KClearPly(ply) ==
    /\ killer_moves' = KillerMoves_clear_ply(killer_moves, ply)
    /\ klast' = [op |-> "clear_ply", mv |-> create_test_move(0, 0), ply |-> ply]
    /\ kprev' = killer_moves

(***************************************************************************)
(*                          search.rs : constants                          *)
(***************************************************************************)
I16_MIN == -32768

I32_MAX == 2147483647

\* NEGATIVE_INFINITY taken as i16::MIN itself
NEGATIVE_INFINITY_i16_min == I16_MIN

NEGATIVE_INFINITY == I16_MIN + 1

INFINITY == -NEGATIVE_INFINITY

CHECKMATE_SCORE == I32_MAX - 1000

MVV_LVA_SCORES ==
    << <<0, 0, 0, 0, 0, 0>>,
       <<50, 51, 52, 53, 54, 55>>,
       <<40, 41, 42, 43, 44, 45>>,
       <<30, 31, 32, 33, 34, 35>>,
       <<20, 21, 22, 23, 24, 25>>,
       <<10, 11, 12, 13, 14, 15>> >>

\* Piece::index: the stable indices 0..5 of the six piece kinds.
Piece_index(piece) ==
    CASE piece = "Pawn" -> 0
      [] piece = "Knight" -> 1
      [] piece = "Bishop" -> 2
      [] piece = "Rook" -> 3
      [] piece = "Queen" -> 4
      [] piece = "King" -> 5

max(a, b) == IF a >= b THEN a ELSE b

min(a, b) == IF a <= b THEN a ELSE b

(***************************************************************************)
(* The positions the search is run on.  What the search reads of a board   *)
(* (its legal moves in generation order, whether the side to move is in    *)
(* check, its static evaluation from the side to move's point of view, its *)
(* Zobrist key, the pieces on the squares its moves touch and the board    *)
(* each move leads to) is tabulated per position.  Sides alternate along   *)
(* every move.                                                             *)
(*   L   every move of the side to move allows mate in one (A1, A2)        *)
(*   A1, A2   the side to move mates in one (X1, X2) or plays on           *)
(*   X1, X2, X3   checkmated;  S   stalemated                              *)
(*   V   the side to move mates in one (M) or enters L (N) with a capture  *)
(*   Z, Y   lead into the positions above                                  *)
(*   Q1 .. Q4   quiet positions on a cycle of four plies                   *)
(*   E   quiet moves, an en passant capture (the pawn on 36 takes the pawn  *)
(*       on 37 by moving to the empty square 45), a promotion, and         *)
(*       captures of a pawn, a queen and a rook by pieces of several kinds *)
(*   T, Tr   the root of a tree three plies deep in which no position      *)
(*       occurs twice and no side is ever in check: T1 .. T3 after the     *)
(*       root's moves, T11 .. T32 after theirs, T111 .. T322 without moves *)
(*   Pab, Cab   a queen on one of three squares (a) against a king on one  *)
(*       of three squares (b): in Pab White is to move and each queen move *)
(*       gives check, in Cab Black is in check and each king move is an    *)
(*       evasion, so checks and evasions go round without end.  The scores *)
(*       are sums over the pieces, as Evaluator::evaluate computes them:   *)
(*       940, 915 or 900 for the queen's square less 25, 10 or 0 for the   *)
(*       king's, negated when Black is to move.                            *)
(***************************************************************************)
GM(from, to, piece_type, move_type, next) ==
    [mv |-> Move_new(from, to, piece_type, move_type), next |-> next]

Game ==
    [ L  |-> [key |-> 1, check |-> FALSE, eval |-> -300,
              pieces |-> (4 :> "King"),
              moves |-> << GM(4, 3, "King", "Quiet", "A1"),
                           GM(4, 5, "King", "Quiet", "A2") >>],
      A1 |-> [key |-> 2, check |-> FALSE, eval |-> 300,
              pieces |-> (31 :> "Queen" @@ 60 :> "King"),
              moves |-> << GM(60, 61, "King", "Quiet", "Q1"),
                           GM(31, 4, "Queen", "Quiet", "X1") >>],
      A2 |-> [key |-> 3, check |-> FALSE, eval |-> 300,
              pieces |-> (31 :> "Queen" @@ 56 :> "Rook" @@ 16 :> "Knight"),
              moves |-> << GM(56, 16, "Rook", "Capture", "Q3"),
                           GM(31, 13, "Queen", "Quiet", "X2") >>],
      X1 |-> [key |-> 4, check |-> TRUE, eval |-> -900,
              pieces |-> (3 :> "King"), moves |-> << >>],
      X2 |-> [key |-> 5, check |-> TRUE, eval |-> -900,
              pieces |-> (5 :> "King"), moves |-> << >>],
      X3 |-> [key |-> 6, check |-> TRUE, eval |-> -900,
              pieces |-> (4 :> "King"), moves |-> << >>],
      Q1 |-> [key |-> 7, check |-> FALSE, eval |-> 20,
              pieces |-> (3 :> "King" @@ 48 :> "Pawn"),
              moves |-> << GM(48, 56, "Queen", "Promotion", "Q4"),
                           GM(3, 2, "King", "Quiet", "Q2") >>],
      Q2 |-> [key |-> 8, check |-> FALSE, eval |-> -20,
              pieces |-> (61 :> "King"),
              moves |-> << GM(61, 62, "King", "Quiet", "Q3") >>],
      Q3 |-> [key |-> 9, check |-> FALSE, eval |-> 10,
              pieces |-> (2 :> "King" @@ 10 :> "Knight" @@ 27 :> "Pawn"),
              moves |-> << GM(2, 3, "King", "Quiet", "Q4"),
                           GM(10, 27, "Knight", "Capture", "Q2") >>],
      Q4 |-> [key |-> 10, check |-> FALSE, eval |-> -10,
              pieces |-> (62 :> "King"),
              moves |-> << GM(62, 61, "King", "Quiet", "Q1") >>],
      V  |-> [key |-> 11, check |-> FALSE, eval |-> 500,
              pieces |-> (31 :> "Queen" @@ 20 :> "Pawn" @@ 11 :> "Bishop"),
              moves |-> << GM(20, 11, "Pawn", "Capture", "L"),
                           GM(31, 13, "Queen", "Quiet", "X3") >>],
      S  |-> [key |-> 12, check |-> FALSE, eval |-> -50,
              pieces |-> (7 :> "King"), moves |-> << >>],
      Z  |-> [key |-> 13, check |-> FALSE, eval |-> -100,
              pieces |-> (4 :> "King" @@ 8 :> "Pawn"),
              moves |-> << GM(8, 16, "Pawn", "Quiet", "A1"),
                           GM(4, 12, "King", "Quiet", "Y") >>],
      Y  |-> [key |-> 14, check |-> FALSE, eval |-> 100,
              pieces |-> (60 :> "King" @@ 55 :> "Pawn"),
              moves |-> << GM(55, 47, "Pawn", "Quiet", "L"),
                           GM(60, 59, "King", "Quiet", "Q1") >>],
      E  |-> [key |-> 15, check |-> FALSE, eval |-> 150,
              pieces |-> (3 :> "Queen" @@ 4 :> "King" @@ 7 :> "Rook" @@ 18 :> "Knight"
                          @@ 26 :> "Pawn" @@ 30 :> "Pawn" @@ 36 :> "Pawn" @@ 49 :> "Pawn"
                          @@ 24 :> "Pawn" @@ 35 :> "Queen" @@ 37 :> "Pawn" @@ 39 :> "Rook"),
              moves |-> << GM(4, 12, "King", "Quiet", "Q2"),
                           GM(18, 28, "Knight", "Quiet", "Q4"),
                           GM(36, 45, "Pawn", "EnPassant", "Q2"),
                           GM(49, 57, "Queen", "Promotion", "Q4"),
                           GM(18, 24, "Knight", "Capture", "Q4"),
                           GM(26, 35, "Pawn", "Capture", "A1"),
                           GM(3, 35, "Queen", "Capture", "Q2"),
                           GM(30, 39, "Pawn", "Capture", "Q4"),
                           GM(7, 39, "Rook", "Capture", "Q2") >>],
      T |-> [key |-> 16, check |-> FALSE, eval |-> -50,
                pieces |-> (8 :> "Pawn" @@ 10 :> "Pawn" @@ 12 :> "Pawn" @@ 19 :> "Rook"),
                moves |-> << GM(8, 16, "Pawn", "Quiet", "T1"),
                               GM(10, 19, "Pawn", "Capture", "T2"),
                               GM(12, 20, "Pawn", "Quiet", "T3") >>],
      T1 |-> [key |-> 17, check |-> FALSE, eval |-> -70,
                pieces |-> (8 :> "Pawn" @@ 10 :> "Pawn" @@ 17 :> "Bishop" @@ 19 :> "Knight"),
                moves |-> << GM(8, 17, "Pawn", "Capture", "T11"),
                               GM(10, 19, "Pawn", "Capture", "T12") >>],
      T2 |-> [key |-> 18, check |-> FALSE, eval |-> 80,
                pieces |-> (8 :> "Pawn" @@ 10 :> "Pawn" @@ 17 :> "Bishop"),
                moves |-> << GM(8, 17, "Pawn", "Capture", "T21"),
                               GM(10, 18, "Pawn", "Quiet", "T22") >>],
      T3 |-> [key |-> 19, check |-> FALSE, eval |-> 40,
                pieces |-> (8 :> "Pawn" @@ 10 :> "Pawn" @@ 19 :> "Bishop"),
                moves |-> << GM(8, 16, "Pawn", "Quiet", "T31"),
                               GM(10, 19, "Pawn", "Capture", "T32") >>],
      T11 |-> [key |-> 20, check |-> FALSE, eval |-> 50,
                pieces |-> (8 :> "Pawn" @@ 10 :> "Pawn" @@ 17 :> "Bishop" @@ 19 :> "Knight"),
                moves |-> << GM(8, 17, "Pawn", "Capture", "T111"),
                               GM(10, 19, "Pawn", "Capture", "T112") >>],
      T12 |-> [key |-> 21, check |-> FALSE, eval |-> 50,
                pieces |-> (8 :> "Pawn" @@ 10 :> "Pawn" @@ 17 :> "Knight"),
                moves |-> << GM(8, 17, "Pawn", "Capture", "T121"),
                               GM(10, 18, "Pawn", "Quiet", "T122") >>],
      T21 |-> [key |-> 22, check |-> FALSE, eval |-> -25,
                pieces |-> (8 :> "Pawn" @@ 10 :> "Pawn"),
                moves |-> << GM(8, 16, "Pawn", "Quiet", "T211"),
                               GM(10, 18, "Pawn", "Quiet", "T212") >>],
      T22 |-> [key |-> 23, check |-> FALSE, eval |-> 85,
                pieces |-> (8 :> "Pawn" @@ 10 :> "Pawn" @@ 17 :> "Knight"),
                moves |-> << GM(8, 17, "Pawn", "Capture", "T221"),
                               GM(10, 18, "Pawn", "Quiet", "T222") >>],
      T31 |-> [key |-> 24, check |-> FALSE, eval |-> 85,
                pieces |-> (8 :> "Pawn" @@ 10 :> "Pawn" @@ 19 :> "Rook"),
                moves |-> << GM(8, 16, "Pawn", "Quiet", "T311"),
                               GM(10, 19, "Pawn", "Capture", "T312") >>],
      T32 |-> [key |-> 25, check |-> FALSE, eval |-> 70,
                pieces |-> (8 :> "Pawn" @@ 10 :> "Pawn"),
                moves |-> << GM(8, 16, "Pawn", "Quiet", "T321"),
                               GM(10, 18, "Pawn", "Quiet", "T322") >>],
      T111 |-> [key |-> 26, check |-> FALSE, eval |-> -25,
                pieces |-> (4 :> "King"),
                moves |-> << >>],
      T112 |-> [key |-> 27, check |-> FALSE, eval |-> 30,
                pieces |-> (4 :> "King"),
                moves |-> << >>],
      T121 |-> [key |-> 28, check |-> FALSE, eval |-> -60,
                pieces |-> (4 :> "King"),
                moves |-> << >>],
      T122 |-> [key |-> 29, check |-> FALSE, eval |-> -85,
                pieces |-> (4 :> "King"),
                moves |-> << >>],
      T211 |-> [key |-> 30, check |-> FALSE, eval |-> -85,
                pieces |-> (4 :> "King"),
                moves |-> << >>],
      T212 |-> [key |-> 31, check |-> FALSE, eval |-> 50,
                pieces |-> (4 :> "King"),
                moves |-> << >>],
      T221 |-> [key |-> 32, check |-> FALSE, eval |-> -20,
                pieces |-> (4 :> "King"),
                moves |-> << >>],
      T222 |-> [key |-> 33, check |-> FALSE, eval |-> 0,
                pieces |-> (4 :> "King"),
                moves |-> << >>],
      T311 |-> [key |-> 34, check |-> FALSE, eval |-> -60,
                pieces |-> (4 :> "King"),
                moves |-> << >>],
      T312 |-> [key |-> 35, check |-> FALSE, eval |-> 0,
                pieces |-> (4 :> "King"),
                moves |-> << >>],
      T321 |-> [key |-> 36, check |-> FALSE, eval |-> 45,
                pieces |-> (4 :> "King"),
                moves |-> << >>],
      T322 |-> [key |-> 37, check |-> FALSE, eval |-> -30,
                pieces |-> (4 :> "King"),
                moves |-> << >>],
      Tr |-> [key |-> 38, check |-> FALSE, eval |-> -50,
                pieces |-> (8 :> "Pawn" @@ 10 :> "Pawn" @@ 12 :> "Pawn" @@ 19 :> "Rook"),
                moves |-> << GM(12, 20, "Pawn", "Quiet", "T3"),
                               GM(10, 19, "Pawn", "Capture", "T2"),
                               GM(8, 16, "Pawn", "Quiet", "T1") >>],
      P00 |-> [key |-> 39, check |-> FALSE, eval |-> 900,
                pieces |-> (27 :> "Queen" @@ 60 :> "King"),
                moves |-> << GM(27, 28, "Queen", "Quiet", "C10"), GM(27, 35, "Queen", "Quiet", "C20") >>],
      P01 |-> [key |-> 40, check |-> FALSE, eval |-> 890,
                pieces |-> (27 :> "Queen" @@ 61 :> "King"),
                moves |-> << GM(27, 28, "Queen", "Quiet", "C11"), GM(27, 35, "Queen", "Quiet", "C21") >>],
      P02 |-> [key |-> 41, check |-> FALSE, eval |-> 875,
                pieces |-> (27 :> "Queen" @@ 62 :> "King"),
                moves |-> << GM(27, 28, "Queen", "Quiet", "C12"), GM(27, 35, "Queen", "Quiet", "C22") >>],
      P10 |-> [key |-> 42, check |-> FALSE, eval |-> 915,
                pieces |-> (28 :> "Queen" @@ 60 :> "King"),
                moves |-> << GM(28, 27, "Queen", "Quiet", "C00"), GM(28, 35, "Queen", "Quiet", "C20") >>],
      P11 |-> [key |-> 43, check |-> FALSE, eval |-> 905,
                pieces |-> (28 :> "Queen" @@ 61 :> "King"),
                moves |-> << GM(28, 27, "Queen", "Quiet", "C01"), GM(28, 35, "Queen", "Quiet", "C21") >>],
      P12 |-> [key |-> 44, check |-> FALSE, eval |-> 890,
                pieces |-> (28 :> "Queen" @@ 62 :> "King"),
                moves |-> << GM(28, 27, "Queen", "Quiet", "C02"), GM(28, 35, "Queen", "Quiet", "C22") >>],
      P20 |-> [key |-> 45, check |-> FALSE, eval |-> 940,
                pieces |-> (35 :> "Queen" @@ 60 :> "King"),
                moves |-> << GM(35, 27, "Queen", "Quiet", "C00"), GM(35, 28, "Queen", "Quiet", "C10") >>],
      P21 |-> [key |-> 46, check |-> FALSE, eval |-> 930,
                pieces |-> (35 :> "Queen" @@ 61 :> "King"),
                moves |-> << GM(35, 27, "Queen", "Quiet", "C01"), GM(35, 28, "Queen", "Quiet", "C11") >>],
      P22 |-> [key |-> 47, check |-> FALSE, eval |-> 915,
                pieces |-> (35 :> "Queen" @@ 62 :> "King"),
                moves |-> << GM(35, 27, "Queen", "Quiet", "C02"), GM(35, 28, "Queen", "Quiet", "C12") >>],
      C00 |-> [key |-> 48, check |-> TRUE, eval |-> -900,
                pieces |-> (27 :> "Queen" @@ 60 :> "King"),
                moves |-> << GM(60, 61, "King", "Quiet", "P01"), GM(60, 62, "King", "Quiet", "P02") >>],
      C01 |-> [key |-> 49, check |-> TRUE, eval |-> -890,
                pieces |-> (27 :> "Queen" @@ 61 :> "King"),
                moves |-> << GM(61, 60, "King", "Quiet", "P00"), GM(61, 62, "King", "Quiet", "P02") >>],
      C02 |-> [key |-> 50, check |-> TRUE, eval |-> -875,
                pieces |-> (27 :> "Queen" @@ 62 :> "King"),
                moves |-> << GM(62, 60, "King", "Quiet", "P00"), GM(62, 61, "King", "Quiet", "P01") >>],
      C10 |-> [key |-> 51, check |-> TRUE, eval |-> -915,
                pieces |-> (28 :> "Queen" @@ 60 :> "King"),
                moves |-> << GM(60, 61, "King", "Quiet", "P11"), GM(60, 62, "King", "Quiet", "P12") >>],
      C11 |-> [key |-> 52, check |-> TRUE, eval |-> -905,
                pieces |-> (28 :> "Queen" @@ 61 :> "King"),
                moves |-> << GM(61, 60, "King", "Quiet", "P10"), GM(61, 62, "King", "Quiet", "P12") >>],
      C12 |-> [key |-> 53, check |-> TRUE, eval |-> -890,
                pieces |-> (28 :> "Queen" @@ 62 :> "King"),
                moves |-> << GM(62, 60, "King", "Quiet", "P10"), GM(62, 61, "King", "Quiet", "P11") >>],
      C20 |-> [key |-> 54, check |-> TRUE, eval |-> -940,
                pieces |-> (35 :> "Queen" @@ 60 :> "King"),
                moves |-> << GM(60, 61, "King", "Quiet", "P21"), GM(60, 62, "King", "Quiet", "P22") >>],
      C21 |-> [key |-> 55, check |-> TRUE, eval |-> -930,
                pieces |-> (35 :> "Queen" @@ 61 :> "King"),
                moves |-> << GM(61, 60, "King", "Quiet", "P20"), GM(61, 62, "King", "Quiet", "P22") >>],
      C22 |-> [key |-> 56, check |-> TRUE, eval |-> -915,
                pieces |-> (35 :> "Queen" @@ 62 :> "King"),
                moves |-> << GM(62, 60, "King", "Quiet", "P20"), GM(62, 61, "King", "Quiet", "P21") >>] ]

\* the positions find_best_move is called on and the front end is set to
Boards == {"L", "A1", "A2", "X1", "X2", "X3", "Q1", "Q2", "Q3", "Q4", "V", "S", "Z", "Y", "E"}

\* the roots of the tree: T, and Tr (T with its moves generated in the
\* reverse order)
TreeRoots == {"T", "Tr"}

\* the positions of the queen and the king: Pab with White to move, Cab with
\* Black to move and in check
CheckBoards == {"P00", "P01", "P02", "P10", "P11", "P12", "P20", "P21", "P22",
                "C00", "C01", "C02", "C10", "C11", "C12", "C20", "C21", "C22"}

\* MoveGenerator::generate_moves, read off the table
generate_moves(board) ==
    [i \in 1 .. Len(Game[board].moves) |-> Game[board].moves[i].mv]

\* Board::clone_with_move
clone_with_move(board, mv) ==
    (CHOOSE g \in { Game[board].moves[i] : i \in 1 .. Len(Game[board].moves) } :
        g.mv = mv).next

\* MoveGenerator::is_in_check
is_in_check(board) == Game[board].check

\* Evaluator::evaluate
evaluate(board) == Game[board].eval

\* ZobristTable::hash
Zobrist_hash(board) == Game[board].key

\* Board::get_piece_at
get_piece_at(board, sq) ==
    IF sq \in DOMAIN Game[board].pieces THEN Some(Game[board].pieces[sq]) ELSE None

\* MoveGenerator::is_capture
is_capture(mv) == mv.move_type = "Capture" \/ mv.move_type = "EnPassant"

\* MoveGenerator::is_promotion
is_promotion(mv) == mv.move_type = "Promotion"

\* MoveGenerator::is_check
is_check(board, mv) == is_in_check(clone_with_move(board, mv))

\* MoveGenerator::generate_quiescence_moves
generate_quiescence_moves(board) ==
    LET keep(mv) == is_capture(mv) \/ is_promotion(mv) \/ is_check(board, mv)
    IN SelectSeq(generate_moves(board), keep)

(***************************************************************************)
(* slice::sort_by_cached_key: a stable sort by ascending key.              *)
(***************************************************************************)
RECURSIVE insert_by_key(_, _)
insert_by_key(sorted, x) ==
    IF sorted = << >> THEN <<x>>
    ELSE IF x.key < Head(sorted).key THEN <<x>> \o sorted
    ELSE <<Head(sorted)>> \o insert_by_key(Tail(sorted), x)

RECURSIVE sort_keyed(_)
sort_keyed(s) ==
    IF s = << >> THEN << >>
    ELSE insert_by_key(sort_keyed(SubSeq(s, 1, Len(s) - 1)), s[Len(s)])

\* the moves paired with their cached keys, sorted, and the keys dropped
sort_by_cached_key(keyed) ==
    LET sorted == sort_keyed(keyed)
    IN [i \in 1 .. Len(keyed) |-> sorted[i].item]

\* Searcher::calculate_capture_score
calculate_capture_score(board, mv) ==
    LET attacker == get_piece_at(board, mv.from)
        victim == get_piece_at(board, mv.to)
    IN IF attacker = None \/ victim = None THEN None
       ELSE Some(MVV_LVA_SCORES[Piece_index(victim[1]) + 1][Piece_index(attacker[1]) + 1])

\* the sort key of Searcher::order_moves
order_moves_key(killers, board, tt_move, ply, mv) ==
    IF tt_move # None /\ mv = tt_move[1] THEN I16_MIN
    ELSE IF is_capture(mv) /\ calculate_capture_score(board, mv) # None
         THEN -(calculate_capture_score(board, mv)[1]) - 1000
    ELSE IF is_killer(killers, mv, ply) THEN -500
    ELSE IF mv.move_type = "Promotion" THEN -400
    ELSE 0

\* Searcher::order_moves
order_moves(killers, board, moves, tt_move, ply) ==
    LET key(mv) == order_moves_key(killers, board, tt_move, ply, mv)
    IN sort_by_cached_key([i \in 1 .. Len(moves) |-> [key |-> key(moves[i]), item |-> moves[i]]])

\* Searcher::order_captures
order_captures(moves, board) ==
    LET key(mv) ==
            IF mv.move_type = "EnPassant" THEN -10
            ELSE IF calculate_capture_score(board, mv) # None
                 THEN -(calculate_capture_score(board, mv)[1])
                 ELSE 0
    IN sort_by_cached_key([i \in 1 .. Len(moves) |-> [key |-> key(moves[i]), item |-> moves[i]]])

(***************************************************************************)
(* transposition.rs : TranspositionTable (fixed capacity, slot = key mod   *)
(* capacity, always replace)                                               *)
(***************************************************************************)
\* Number of slots of the table.
TableSlots == 8

TranspositionTable_new == [slot \in 0 .. TableSlots - 1 |-> None]

TranspositionTable_store(table, key, eval, best_move, depth, bounds) ==
    [table EXCEPT ![key % TableSlots] =
        Some([key |-> key, eval |-> eval, best_move |-> best_move,
              depth |-> depth, bounds |-> bounds])]

TranspositionTable_retrieve(table, key) ==
    LET slot == table[key % TableSlots]
    IN IF slot # None /\ slot[1].key = key THEN slot ELSE None

(***************************************************************************)
(* PositionHistory: a stack of Zobrist hashes                              *)
(***************************************************************************)
PositionHistory_new == << >>

PositionHistory_push(h, hash) == Append(h, hash)

PositionHistory_pop(h) == IF h = << >> THEN h ELSE SubSeq(h, 1, Len(h) - 1)

is_repetition(h, hash) ==
    Cardinality({ i \in 1 .. Len(h) : h[i] = hash }) >= 2

(***************************************************************************)
(* timer.rs : SearchTimer.  Instants are milliseconds of a clock.          *)
(***************************************************************************)
SearchTimer_new == [start_time |-> None, time_limit |-> None, nodes_searched |-> 0]

\* SearchTimer::start
SearchTimer_start(t, now, time_limit) ==
    [start_time |-> Some(now), time_limit |-> time_limit, nodes_searched |-> 0]

\* SearchTimer::reset dropping the time limit as well
SearchTimer_reset_limit(t, now) ==
    [start_time |-> Some(now), time_limit |-> None, nodes_searched |-> 0]

\* SearchTimer::reset
SearchTimer_reset(t, now) ==
    [t EXCEPT !.start_time = Some(now), !.nodes_searched = 0]

\* SearchTimer::increment_nodes
increment_nodes(t) == [t EXCEPT !.nodes_searched = @ + 1]

\* SearchTimer::add_nodes
add_nodes(t, count) == [t EXCEPT !.nodes_searched = @ + count]

\* SearchTimer::should_stop reading the limit as exclusive
should_stop_late(t, now) ==
    IF t.start_time # None /\ t.time_limit # None
    THEN now - t.start_time[1] > t.time_limit[1]
    ELSE FALSE

\* SearchTimer::should_stop
should_stop(t, now) ==
    IF t.start_time # None /\ t.time_limit # None
    THEN now - t.start_time[1] >= t.time_limit[1]
    ELSE FALSE

\* SearchTimer::elapsed_ms
elapsed_ms(t, now) == IF t.start_time # None THEN now - t.start_time[1] ELSE 0

(***************************************************************************)
(* search.rs : SearchResult                                                *)
(***************************************************************************)
SearchResult_new(score, best_move) == [score |-> score, best_move |-> best_move]

SearchResult_worst == SearchResult_new(NEGATIVE_INFINITY, None)

SearchResult_checkmate(checkmate_score) == SearchResult_new(checkmate_score, None)

SearchResult_stalemate == SearchResult_new(0, None)

(***************************************************************************)
(* The searcher, the front end and the clock.                              *)
(***************************************************************************)
VARIABLES
    board,      \* Flounder.board
    tt,         \* Searcher.transposition_table
    timer,      \* Searcher.timer
    history,    \* Searcher.history
    clock,      \* the monotonic clock, in milliseconds
    fbm,        \* the activation of find_best_move: its arguments and locals
    stack,      \* the activations of negamax and search_until_quiet, root first
    ret,        \* the value the activation that returned last handed to its caller
    info,       \* the info lines find_best_move has printed in this call
    out,        \* the bestmove lines handle_go_command has printed
    iters,      \* per iteration of this call: its depth, its result, whether the timer had expired
    mates,      \* the checkmates handle_terminal_position scored in this call
    gos,        \* number of go commands handled
    chess,      \* the board the move generator is run on
    plies,      \* number of moves played on it
    hist,       \* HistoryTable.scores: [[i32; 64]; 64]
    evaluator,  \* Evaluator: gamephase, opening_score, endgame_score
    clast,      \* the last operation applied to a component run on its own, with its arguments
    cprev,      \* that component's state before the operation
    cops,       \* number of operations applied to it
    clog        \* the operations applied to it, first to last

svars == <<board, tt, timer, history, clock, fbm, stack, ret, info, out, iters, mates, gos>>

mvars == <<chess, plies>>

cvars == <<hist, evaluator, clast, cprev, cops, clog>>

vars == <<killer_moves, klast, kprev, board, tt, timer, history, clock, fbm, stack, ret,
          info, out, iters, mates, gos, chess, plies, hist, evaluator, clast, cprev, cops, clog>>

\* The time limit of the running search has passed on the clock.
TimerExpired ==
    /\ timer.start_time # None
    /\ timer.time_limit # None
    /\ clock - timer.start_time[1] >= timer.time_limit[1]

\* Searcher::new and Flounder::new
SearcherInit ==
    /\ killer_moves = KillerMoves_new
    /\ board = "Q1"
    /\ tt = TranspositionTable_new
    /\ timer = SearchTimer_new
    /\ history = PositionHistory_new
    /\ clock = 0
    /\ fbm = [pc |-> "idle", caller |-> "none", board |-> "Q1", max_depth |-> 0,
              current_depth |-> 0, best_score |-> NEGATIVE_INFINITY, best_move |-> None]
    /\ stack = << >>
    /\ ret = None
    /\ info = << >>
    /\ out = << >>
    /\ iters = << >>
    /\ mates = {}
    /\ gos = 0

\* an activation of negamax (fn = "negamax") or search_until_quiet (fn = "quiet")
Frame(fn, b, depth, ply, alpha, beta) ==
    [fn |-> fn, board |-> b, depth |-> depth, ply |-> ply, alpha |-> alpha, beta |-> beta,
     original_alpha |-> alpha, moves |-> << >>, i |-> 1, best |-> SearchResult_worst,
     pc |-> "enter"]

Top == stack[Len(stack)]

SetTop(f) == [stack EXCEPT ![Len(stack)] = f]

\* Searcher::determine_bound with strict comparisons
determine_bound_strict(score, original_alpha, beta) ==
    IF score < original_alpha THEN "Upper"
    ELSE IF score > beta THEN "Lower"
    ELSE "Exact"

\* Searcher::determine_bound
determine_bound(score, original_alpha, beta) ==
    IF score <= original_alpha THEN "Upper"
    ELSE IF score >= beta THEN "Lower"
    ELSE "Exact"

\* Searcher::store_in_transposition_table storing every entry as Exact
store_in_transposition_table_exact(table, b, result, depth, bound) ==
    TranspositionTable_store(table, Zobrist_hash(b), result.score, result.best_move, depth, "Exact")

\* Searcher::store_in_transposition_table
store_in_transposition_table(table, b, result, depth, bound) ==
    TranspositionTable_store(table, Zobrist_hash(b), result.score, result.best_move, depth, bound)

\* Searcher::cache_search_result keeping the bound of the root window
cache_search_result_bound(table, b, result, depth) ==
    store_in_transposition_table(table, b, result, depth,
                                 determine_bound(result.score, NEGATIVE_INFINITY, INFINITY))

\* Searcher::cache_search_result
cache_search_result(table, b, result, depth) ==
    store_in_transposition_table(table, b, result, depth, "Exact")

\* Searcher::is_draw_by_repetition
is_draw_by_repetition(h, b) == is_repetition(h, Zobrist_hash(b))

\* Searcher::probe_transposition_table using an entry of any depth
probe_transposition_table_any_depth(table, b, depth, alpha, beta) ==
    LET entry == TranspositionTable_retrieve(table, Zobrist_hash(b))
    IN IF entry = None THEN [result |-> None, tt_best_move |-> None]
       ELSE LET e == entry[1]
                a2 == IF e.bounds = "Lower" THEN max(alpha, e.eval) ELSE alpha
                b2 == IF e.bounds = "Upper" THEN min(beta, e.eval) ELSE beta
            IN IF e.bounds = "Exact" \/ a2 >= b2
               THEN [result |-> Some(SearchResult_new(e.eval, e.best_move)),
                     tt_best_move |-> e.best_move]
               ELSE [result |-> None, tt_best_move |-> e.best_move]

\* Searcher::probe_transposition_table: the result it returns and the
\* tt_best_move it leaves in the context
probe_transposition_table(table, b, depth, alpha, beta) ==
    LET entry == TranspositionTable_retrieve(table, Zobrist_hash(b))
    IN IF entry = None THEN [result |-> None, tt_best_move |-> None]
       ELSE LET e == entry[1]
                a2 == IF e.bounds = "Lower" THEN max(alpha, e.eval) ELSE alpha
                b2 == IF e.bounds = "Upper" THEN min(beta, e.eval) ELSE beta
            IN IF e.depth < depth THEN [result |-> None, tt_best_move |-> e.best_move]
               ELSE IF e.bounds = "Exact"
                    THEN [result |-> Some(SearchResult_new(e.eval, e.best_move)),
                          tt_best_move |-> e.best_move]
               ELSE IF a2 >= b2
                    THEN [result |-> Some(SearchResult_new(e.eval, e.best_move)),
                          tt_best_move |-> e.best_move]
               ELSE [result |-> None, tt_best_move |-> e.best_move]

\* Searcher::handle_terminal_position with the mate distance subtracted
handle_terminal_position_farther(b, depth) ==
    IF is_in_check(b) THEN SearchResult_checkmate(-CHECKMATE_SCORE - depth)
    ELSE SearchResult_stalemate

\* Searcher::handle_terminal_position
handle_terminal_position(b, depth) ==
    IF is_in_check(b) THEN SearchResult_checkmate(-CHECKMATE_SCORE + depth)
    ELSE SearchResult_stalemate

\* find_best_move line 91 with the test left out
search_completed_always(t, now) == TRUE

\* find_best_move line 91: "Only update if search completed"
search_completed(t, now) == ~should_stop(t, now)

\* SearchTimer::print_info printing the depth limit
print_info_max_depth(lines, t, now, depth, score, best_move) ==
    Append(lines, [depth |-> fbm.max_depth, score |-> score, nodes |-> t.nodes_searched,
                   time |-> elapsed_ms(t, now), pv |-> best_move])

\* SearchTimer::print_info
print_info(lines, t, now, depth, score, best_move) ==
    Append(lines, [depth |-> depth, score |-> score, nodes |-> t.nodes_searched,
                   time |-> elapsed_ms(t, now), pv |-> best_move])

(***************************************************************************)
(* An activation returns `result`.  Below the root the caller resumes with *)
(* it.  At the root, search_position pops the history and find_best_move   *)
(* goes on with lines 90-98: it keeps the result, caches it and prints the *)
(* info line when the timer has not expired, and steps to the next depth.  *)
(***************************************************************************)
Return(result, tt2, km2, tm2) ==
    IF Len(stack) > 1
    THEN /\ stack' = SubSeq(stack, 1, Len(stack) - 1)
         /\ ret' = Some(result)
         /\ tt' = tt2
         /\ killer_moves' = km2
         /\ timer' = tm2
         /\ UNCHANGED <<history, fbm, info, iters>>
    ELSE LET completed == search_completed(tm2, clock)
         IN /\ stack' = << >>
            /\ ret' = None
            /\ history' = PositionHistory_pop(history)
            /\ fbm' = [fbm EXCEPT !.best_score = IF completed THEN result.score ELSE @,
                                  !.best_move = IF completed THEN result.best_move ELSE @,
                                  !.current_depth = @ + 1,
                                  !.pc = "iter_head"]
            /\ tt' = IF completed
                     THEN cache_search_result(tt2, fbm.board, result, fbm.current_depth)
                     ELSE tt2
            /\ info' = IF completed
                       THEN print_info(info, tm2, clock, fbm.current_depth,
                                       result.score, result.best_move)
                       ELSE info
            /\ iters' = Append(iters, [depth |-> fbm.current_depth, score |-> result.score,
                                       best_move |-> result.best_move,
                                       expired |-> TimerExpired])
            /\ killer_moves' = km2
            /\ timer' = tm2

\* negamax lines 210-213: classify the bound, store the entry, return
Finish(f, best, km2) ==
    Return(best,
           store_in_transposition_table(tt, f.board, best, f.depth,
                                        determine_bound(best.score, f.original_alpha, f.beta)),
           km2, timer)

\* negamax lines 146-174: from the call to the first move of the loop
NegamaxEnter ==
    /\ stack # << >>
    /\ Top.fn = "negamax" /\ Top.pc = "enter"
    /\ LET f == Top
           tm1 == increment_nodes(timer)
           probe == probe_transposition_table(tt, f.board, f.depth, f.alpha, f.beta)
           moves == generate_moves(f.board)
       IN IF f.ply > 0 /\ is_draw_by_repetition(history, f.board)
          THEN Return(SearchResult_new(0, None), tt, killer_moves, tm1) /\ UNCHANGED mates
          ELSE IF probe.result # None
          THEN Return(probe.result[1], tt, killer_moves, tm1) /\ UNCHANGED mates
          ELSE IF f.depth = 0
          THEN /\ stack' = Append(SetTop([f EXCEPT !.pc = "wait"]),
                                  Frame("quiet", f.board, 0, f.ply, f.alpha, f.beta))
               /\ timer' = tm1
               /\ UNCHANGED <<tt, killer_moves, history, fbm, info, iters, ret, mates>>
          ELSE IF moves = << >>
          THEN /\ Return(handle_terminal_position(f.board, f.depth), tt, killer_moves, tm1)
               /\ mates' = IF is_in_check(f.board)
                           THEN mates \cup {[iter |-> fbm.current_depth, ply |-> f.ply,
                                             score |-> handle_terminal_position(f.board, f.depth).score]}
                           ELSE mates
          ELSE /\ stack' = SetTop([f EXCEPT
                              !.moves = order_moves(killer_moves, f.board, moves,
                                                    probe.tt_best_move, f.ply),
                              !.i = 1, !.pc = "loop"])
               /\ timer' = tm1
               /\ UNCHANGED <<tt, killer_moves, history, fbm, info, iters, ret, mates>>
    /\ UNCHANGED <<board, clock, out, gos, klast, kprev>>

\* negamax lines 177-194 with the recursive call made at the caller's ply
NegamaxLoop_same_ply ==
    /\ stack # << >>
    /\ Top.fn = "negamax" /\ Top.pc = "loop"
    /\ LET f == Top
       IN IF f.i > Len(f.moves) \/ should_stop(timer, clock)
          THEN Finish(f, f.best, killer_moves)
          ELSE /\ stack' = Append(SetTop([f EXCEPT !.pc = "wait"]),
                                  Frame("negamax", clone_with_move(f.board, f.moves[f.i]),
                                        f.depth - 1, f.ply, -f.beta, -f.alpha))
               /\ UNCHANGED <<tt, killer_moves, timer, history, fbm, info, iters, ret>>
    /\ UNCHANGED <<board, clock, out, gos, mates, klast, kprev>>

\* negamax lines 177-194: the head of the move loop and the recursive call
NegamaxLoop ==
    /\ stack # << >>
    /\ Top.fn = "negamax" /\ Top.pc = "loop"
    /\ LET f == Top
       IN IF f.i > Len(f.moves) \/ should_stop(timer, clock)
          THEN Finish(f, f.best, killer_moves)
          ELSE /\ stack' = Append(SetTop([f EXCEPT !.pc = "wait"]),
                                  Frame("negamax", clone_with_move(f.board, f.moves[f.i]),
                                        f.depth - 1, f.ply + 1, -f.beta, -f.alpha))
               /\ UNCHANGED <<tt, killer_moves, timer, history, fbm, info, iters, ret>>
    /\ UNCHANGED <<board, clock, out, gos, mates, klast, kprev>>

\* negamax lines 162-163 and 185-207 storing every move that cuts off as a
\* killer, whatever its type
NegamaxResume_store_any ==
    /\ stack # << >>
    /\ Top.fn = "negamax" /\ Top.pc = "wait" /\ ret # None
    /\ LET f == Top
           score == -(ret[1].score)
           current_move == f.moves[f.i]
           best == IF score > f.best.score
                   THEN SearchResult_new(score, Some(current_move))
                   ELSE f.best
           alpha == max(f.alpha, score)
       IN IF f.depth = 0
          THEN Return(SearchResult_new(ret[1].score, None), tt, killer_moves, timer)
          ELSE IF alpha >= f.beta
          THEN Finish(f, best, KillerMoves_store(killer_moves, current_move, f.ply))
          ELSE /\ stack' = SetTop([f EXCEPT !.best = best, !.alpha = alpha,
                                            !.i = @ + 1, !.pc = "loop"])
               /\ ret' = None
               /\ UNCHANGED <<tt, killer_moves, timer, history, fbm, info, iters>>
    /\ UNCHANGED <<board, clock, out, gos, mates, klast, kprev>>

\* negamax lines 162-163 and 185-207: the callee has returned
NegamaxResume ==
    /\ stack # << >>
    /\ Top.fn = "negamax" /\ Top.pc = "wait" /\ ret # None
    /\ LET f == Top
           score == -(ret[1].score)
           current_move == f.moves[f.i]
           best == IF score > f.best.score
                   THEN SearchResult_new(score, Some(current_move))
                   ELSE f.best
           alpha == max(f.alpha, score)
       IN IF f.depth = 0
          THEN Return(SearchResult_new(ret[1].score, None), tt, killer_moves, timer)
          ELSE IF alpha >= f.beta
          THEN Finish(f, best,
                      IF current_move.move_type = "Quiet"
                      THEN KillerMoves_store(killer_moves, current_move, f.ply)
                      ELSE killer_moves)
          ELSE /\ stack' = SetTop([f EXCEPT !.best = best, !.alpha = alpha,
                                            !.i = @ + 1, !.pc = "loop"])
               /\ ret' = None
               /\ UNCHANGED <<tt, killer_moves, timer, history, fbm, info, iters>>
    /\ UNCHANGED <<board, clock, out, gos, mates, klast, kprev>>

\* search_until_quiet going on where the standing score reaches beta
QuietEnter_no_stand_pat_cutoff ==
    /\ stack # << >>
    /\ Top.fn = "quiet" /\ Top.pc = "enter"
    /\ LET f == Top
           tm1 == increment_nodes(timer)
           currently_in_check == is_in_check(f.board)
           moves == order_captures(IF currently_in_check
                                   THEN generate_moves(f.board)
                                   ELSE generate_quiescence_moves(f.board), f.board)
           stand_pat == evaluate(f.board)
       IN IF moves = << >> /\ currently_in_check
          THEN Return(SearchResult_new(-CHECKMATE_SCORE, None), tt, killer_moves, tm1)
          ELSE /\ stack' = SetTop([f EXCEPT !.moves = moves, !.i = 1, !.pc = "loop",
                                            !.alpha = max(f.alpha, stand_pat)])
               /\ timer' = tm1
               /\ UNCHANGED <<tt, killer_moves, history, fbm, info, iters, ret>>
    /\ UNCHANGED <<board, clock, out, gos, mates, klast, kprev>>

\* search_until_quiet lines 221-242: from the call to the first move
QuietEnter ==
    /\ stack # << >>
    /\ Top.fn = "quiet" /\ Top.pc = "enter"
    /\ LET f == Top
           tm1 == increment_nodes(timer)
           currently_in_check == is_in_check(f.board)
           moves == order_captures(IF currently_in_check
                                   THEN generate_moves(f.board)
                                   ELSE generate_quiescence_moves(f.board), f.board)
           stand_pat == evaluate(f.board)
       IN IF moves = << >> /\ currently_in_check
          THEN Return(SearchResult_new(-CHECKMATE_SCORE, None), tt, killer_moves, tm1)
          ELSE IF stand_pat >= f.beta
          THEN Return(SearchResult_new(f.beta, None), tt, killer_moves, tm1)
          ELSE /\ stack' = SetTop([f EXCEPT !.moves = moves, !.i = 1, !.pc = "loop",
                                            !.alpha = max(f.alpha, stand_pat)])
               /\ timer' = tm1
               /\ UNCHANGED <<tt, killer_moves, history, fbm, info, iters, ret>>
    /\ UNCHANGED <<board, clock, out, gos, mates, klast, kprev>>

\* search_until_quiet lines 244-250 and 259: the head of the move loop
QuietLoop ==
    /\ stack # << >>
    /\ Top.fn = "quiet" /\ Top.pc = "loop"
    /\ LET f == Top
       IN IF f.i > Len(f.moves) \/ should_stop(timer, clock)
          THEN Return(SearchResult_new(f.alpha, None), tt, killer_moves, timer)
          ELSE /\ stack' = Append(SetTop([f EXCEPT !.pc = "wait"]),
                                  Frame("quiet", clone_with_move(f.board, f.moves[f.i]),
                                        0, f.ply + 1, -f.beta, -f.alpha))
               /\ UNCHANGED <<tt, killer_moves, timer, history, fbm, info, iters, ret>>
    /\ UNCHANGED <<board, clock, out, gos, mates, klast, kprev>>

\* search_until_quiet lines 250-256 returning the child's score at a cutoff
QuietResume_fail_soft ==
    /\ stack # << >>
    /\ Top.fn = "quiet" /\ Top.pc = "wait" /\ ret # None
    /\ LET f == Top
           score == -(ret[1].score)
       IN IF score >= f.beta
          THEN Return(SearchResult_new(score, None), tt, killer_moves, timer)
          ELSE /\ stack' = SetTop([f EXCEPT !.alpha = max(f.alpha, score),
                                            !.i = @ + 1, !.pc = "loop"])
               /\ ret' = None
               /\ UNCHANGED <<tt, killer_moves, timer, history, fbm, info, iters>>
    /\ UNCHANGED <<board, clock, out, gos, mates, klast, kprev>>

\* search_until_quiet lines 250-256: the callee has returned
QuietResume ==
    /\ stack # << >>
    /\ Top.fn = "quiet" /\ Top.pc = "wait" /\ ret # None
    /\ LET f == Top
           score == -(ret[1].score)
       IN IF score >= f.beta
          THEN Return(SearchResult_new(f.beta, None), tt, killer_moves, timer)
          ELSE /\ stack' = SetTop([f EXCEPT !.alpha = max(f.alpha, score),
                                            !.i = @ + 1, !.pc = "loop"])
               /\ ret' = None
               /\ UNCHANGED <<tt, killer_moves, timer, history, fbm, info, iters>>
    /\ UNCHANGED <<board, clock, out, gos, mates, klast, kprev>>

(***************************************************************************)
(* moves.rs : Move::to_algebraic, source square + destination square +     *)
(* the lowercase letter of the promotion piece.                            *)
(***************************************************************************)
FileLetters == <<"a", "b", "c", "d", "e", "f", "g", "h">>

RankDigits == <<"1", "2", "3", "4", "5", "6", "7", "8">>

square_name(sq) == FileLetters[(sq % 8) + 1] \o RankDigits[(sq \div 8) + 1]

promotion_letter(piece) ==
    CASE piece = "Knight" -> "n"
      [] piece = "Bishop" -> "b"
      [] piece = "Rook" -> "r"
      [] piece = "Queen" -> "q"
      [] OTHER -> ""

to_algebraic(mv) ==
    square_name(mv.from) \o square_name(mv.to)
        \o (IF mv.move_type = "Promotion" THEN promotion_letter(mv.piece_type) ELSE "")

\* Board::active_color
active_color(b) ==
    IF b \in {"L", "X1", "X2", "X3", "Q1", "Q3", "S", "Z", "E",
              "T", "Tr", "T11", "T12", "T21", "T22", "T31", "T32",
              "P00", "P01", "P02", "P10", "P11", "P12", "P20", "P21", "P22"} THEN "White" ELSE "Black"

(***************************************************************************)
(*                         search.rs : find_best_move                      *)
(***************************************************************************)
\* Largest max_depth find_best_move is called with.
MaxDepth == 5

\* Largest time limit, in milliseconds, find_best_move is called with.
MaxLimit == 1

\* Number of go commands the front end is given.
MaxGo == 2

TimeLimits == {None} \cup { Some(l) : l \in 0 .. MaxLimit }

\* find_best_move lines 78-81
Start(caller, b, max_depth, time_limit) ==
    /\ timer' = SearchTimer_start(timer, clock, time_limit)
    /\ fbm' = [pc |-> "iter_head", caller |-> caller, board |-> b, max_depth |-> max_depth,
               current_depth |-> 1, best_score |-> NEGATIVE_INFINITY, best_move |-> None]
    /\ info' = << >>
    /\ iters' = << >>
    /\ mates' = {}
    /\ UNCHANGED <<tt, killer_moves, history, clock, stack, ret, klast, kprev>>

\* a call of find_best_move on a new Searcher, as the tests make it
FindBestMove(b, max_depth, time_limit) ==
    /\ fbm.pc = "idle"
    /\ Start("test", b, max_depth, time_limit)
    /\ UNCHANGED <<board, out, gos>>

\* handle_go_command lines 149-154
bestmove_line(best_move) ==
    IF best_move # None THEN "bestmove " \o to_algebraic(best_move[1])
    ELSE "bestmove 0000"

\* the head of the iterative-deepening loop with search_position pushing the
\* root's hash twice
IterHead_push_twice ==
    /\ fbm.pc = "iter_head"
    /\ IF fbm.current_depth > fbm.max_depth \/ should_stop(timer, clock)
       THEN /\ fbm' = [fbm EXCEPT !.pc = "done"]
            /\ out' = IF fbm.caller = "uci" THEN Append(out, bestmove_line(fbm.best_move))
                      ELSE out
            /\ UNCHANGED <<stack, history>>
       ELSE /\ fbm' = [fbm EXCEPT !.pc = "searching"]
            /\ history' = PositionHistory_push(PositionHistory_push(history, Zobrist_hash(fbm.board)),
                                               Zobrist_hash(fbm.board))
            /\ stack' = <<Frame("negamax", fbm.board, fbm.current_depth, 0,
                                NEGATIVE_INFINITY, INFINITY)>>
            /\ out' = out
    /\ UNCHANGED <<board, tt, killer_moves, timer, clock, ret, info, iters, mates, gos,
                   klast, kprev>>

\* find_best_move lines 83-88 and 101: the head of the iterative-deepening
\* loop, the call of search_position, and the return to the caller
IterHead ==
    /\ fbm.pc = "iter_head"
    /\ IF fbm.current_depth > fbm.max_depth \/ should_stop(timer, clock)
       THEN /\ fbm' = [fbm EXCEPT !.pc = "done"]
            /\ out' = IF fbm.caller = "uci" THEN Append(out, bestmove_line(fbm.best_move))
                      ELSE out
            /\ UNCHANGED <<stack, history>>
       ELSE /\ fbm' = [fbm EXCEPT !.pc = "searching"]
            /\ history' = PositionHistory_push(history, Zobrist_hash(fbm.board))
            /\ stack' = <<Frame("negamax", fbm.board, fbm.current_depth, 0,
                                NEGATIVE_INFINITY, INFINITY)>>
            /\ out' = out
    /\ UNCHANGED <<board, tt, killer_moves, timer, clock, ret, info, iters, mates, gos,
                   klast, kprev>>

\* A millisecond passes while a search with a time limit runs.
Tick ==
    /\ fbm.pc \in {"iter_head", "searching"}
    /\ timer.time_limit # None
    /\ ~TimerExpired
    /\ clock' = clock + 1
    /\ UNCHANGED <<killer_moves, klast, kprev, board, tt, timer, history, fbm, stack, ret,
                   info, out, iters, mates, gos>>

(***************************************************************************)
(* square.rs, bitboard.rs, pieces.rs, board.rs : squares, bitboards as     *)
(* sets of squares, and the board.  Square 0 is a1, square 63 is h8,       *)
(* index = rank * 8 + file.                                                *)
(***************************************************************************)
Squares == 0 .. 63

file_of(sq) == sq % 8

rank_of(sq) == sq \div 8

NORTH == 8

EAST == 1

SOUTH == -8

WEST == -1

RANK_2 == { s \in Squares : rank_of(s) = 1 }

RANK_3 == { s \in Squares : rank_of(s) = 2 }

RANK_6 == { s \in Squares : rank_of(s) = 5 }

RANK_7 == { s \in Squares : rank_of(s) = 6 }

\* the squares between king and rook, F1 G1, B1 C1 D1, F8 G8, B8 C8 D8
WHITE_KING_SIDE == {5, 6}

WHITE_QUEEN_SIDE == {1, 2, 3}

BLACK_KING_SIDE == {61, 62}

BLACK_QUEEN_SIDE == {57, 58, 59}

\* Color::not
opposite(color) == IF color = "White" THEN "Black" ELSE "White"

\* Bitboard::shift by a compass direction: bits pushed off the board or
\* around its edge are dropped
shift(bb, d) ==
    LET df == IF d \in {EAST, NORTH + EAST, SOUTH + EAST} THEN 1
              ELSE IF d \in {WEST, NORTH + WEST, SOUTH + WEST} THEN -1
              ELSE 0
    IN { s + d : s \in { x \in bb : x + d \in Squares /\ file_of(x) + df \in 0 .. 7 } }

\* BitboardIterator: the squares of a bitboard, lowest set bit first
BitboardIterator(bb) ==
    [i \in 1 .. Cardinality(bb) |->
        CHOOSE s \in bb : Cardinality({ t \in bb : t < s }) = i - 1]

\* u64::trailing_zeros
trailing_zeros(bb) ==
    IF bb = {} THEN 64 ELSE CHOOSE s \in bb : \A t \in bb : s <= t

\* PromotionPieceIterator
PromotionPieces == <<"Knight", "Bishop", "Rook", "Queen">>

\* a piece on a square: its color and its kind
PieceOn(color, piece) == <<color, piece>>

\* Board: the placement, the side to move, the four castling rights, the
\* en passant target
Board_new(pieces, active, castling, en_passant_target) ==
    [pieces |-> pieces, active_color |-> active, castling |-> castling,
     en_passant_target |-> en_passant_target]

\* Board::bb
bb(b, color, piece) == { s \in Squares : b.pieces[s] = PieceOn(color, piece) }

\* Board::bb_color
bb_color(b, color) == { s \in Squares : b.pieces[s] # None /\ b.pieces[s][1] = color }

\* Board::bb_all
bb_all(b) == { s \in Squares : b.pieces[s] # None }

\* Board::bb_empty
bb_empty(b) == { s \in Squares : b.pieces[s] = None }

\* Board::castling_ability
castling_ability(b, color) ==
    IF color = "White" THEN <<b.castling.wk, b.castling.wq>>
    ELSE <<b.castling.bk, b.castling.bq>>

\* Board::remove_piece
remove_piece(b, color, piece, sq) == [b EXCEPT !.pieces[sq] = None]

\* Board::add_piece
add_piece(b, color, piece, sq) == [b EXCEPT !.pieces[sq] = PieceOn(color, piece)]

\* Board::clone_with_move on a board of pieces: the moved piece (the
\* promotion piece for a promotion), the pawn taken en passant, the rook of
\* a castle, the castling rights, the en passant target, the side to move
Board_clone_with_move(b, mv) ==
    LET color == b.active_color
        mover == b.pieces[mv.from]
        placed == IF mv.move_type = "Promotion" THEN PieceOn(color, mv.piece_type) ELSE mover
        en_passant == mv.move_type = "EnPassant"
        victim == IF color = "White" THEN mv.to - 8 ELSE mv.to + 8
        castle == mv.move_type = "Castle"
        rook_from == IF file_of(mv.to) = 6 THEN mv.to + 1 ELSE mv.to - 2
        rook_to == IF file_of(mv.to) = 6 THEN mv.to - 1 ELSE mv.to + 1
        double_push == mover = PieceOn(color, "Pawn")
                       /\ (mv.to - mv.from = 16 \/ mv.from - mv.to = 16)
    IN [pieces |->
            [s \in Squares |->
                IF s = mv.to THEN placed
                ELSE IF s = mv.from THEN None
                ELSE IF en_passant /\ s = victim THEN None
                ELSE IF castle /\ s = rook_from THEN None
                ELSE IF castle /\ s = rook_to THEN PieceOn(color, "Rook")
                ELSE b.pieces[s]],
        active_color |-> opposite(color),
        castling |->
            [wk |-> b.castling.wk /\ mv.from \notin {4, 7} /\ mv.to # 7,
             wq |-> b.castling.wq /\ mv.from \notin {4, 0} /\ mv.to # 0,
             bk |-> b.castling.bk /\ mv.from \notin {60, 63} /\ mv.to # 63,
             bq |-> b.castling.bq /\ mv.from \notin {60, 56} /\ mv.to # 56],
        en_passant_target |->
            IF double_push THEN Some((mv.from + mv.to) \div 2) ELSE None]

(***************************************************************************)
(* lookup.rs : the attack tables and the between table                     *)
(***************************************************************************)
Abs(x) == IF x < 0 THEN -x ELSE x

Sign(x) == IF x < 0 THEN -1 ELSE IF x > 0 THEN 1 ELSE 0

\* the squares from sq in one direction up to and including the first
\* occupied one
RECURSIVE ray(_, _, _, _)
ray(sq, df, dr, occupancy) ==
    LET f == file_of(sq) + df
        r == rank_of(sq) + dr
        t == r * 8 + f
    IN IF f \notin 0 .. 7 \/ r \notin 0 .. 7 THEN {}
       ELSE IF t \in occupancy THEN {t}
       ELSE {t} \cup ray(t, df, dr, occupancy)

\* LookupTable::sliding_moves
sliding_moves(sq, occupancy, piece) ==
    LET diagonals == {<<1, 1>>, <<1, -1>>, <<-1, 1>>, <<-1, -1>>}
        lines == {<<1, 0>>, <<-1, 0>>, <<0, 1>>, <<0, -1>>}
        dirs == IF piece = "Bishop" THEN diagonals
                ELSE IF piece = "Rook" THEN lines
                ELSE diagonals \cup lines
    IN UNION { ray(sq, d[1], d[2], occupancy) : d \in dirs }

\* LookupTable::non_sliding_moves
non_sliding_moves(sq, piece) ==
    { t \in Squares :
        LET df == Abs(file_of(t) - file_of(sq))
            dr == Abs(rank_of(t) - rank_of(sq))
        IN IF piece = "Knight" THEN (df = 1 /\ dr = 2) \/ (df = 2 /\ dr = 1)
           ELSE t # sq /\ df <= 1 /\ dr <= 1 }

\* LookupTable::between: the squares strictly between a and b along a rank,
\* file or diagonal when such a line exists, otherwise empty; the inclusive
\* form includes b
between(a, b, inclusive) ==
    LET df == file_of(b) - file_of(a)
        dr == rank_of(b) - rank_of(a)
        aligned == a # b /\ (df = 0 \/ dr = 0 \/ Abs(df) = Abs(dr))
    IN IF ~aligned THEN {}
       ELSE IF inclusive THEN ray(a, Sign(df), Sign(dr), {b})
       ELSE ray(a, Sign(df), Sign(dr), {b}) \ {b}

(***************************************************************************)
(*                     move_gen.rs : MoveGenerator                         *)
(***************************************************************************)
\* PawnDirection::new
PawnDirection_new(color) ==
    [rank_7 |-> IF color = "White" THEN RANK_7 ELSE RANK_2,
     rank_3 |-> IF color = "White" THEN RANK_3 ELSE RANK_6,
     north |-> IF color = "White" THEN NORTH ELSE SOUTH]

\* extract_pawn_moves with the offset added to the destination
extract_pawn_moves_forward(bitboard, offset, move_type) ==
    LET squares == BitboardIterator(bitboard)
    IN [i \in 1 .. Len(squares) |->
           Move_new(squares[i] + offset, squares[i], "Pawn", move_type)]

\* MoveGenerator::extract_pawn_moves
extract_pawn_moves(bitboard, offset, move_type) ==
    LET squares == BitboardIterator(bitboard)
    IN [i \in 1 .. Len(squares) |->
           Move_new(squares[i] - offset, squares[i], "Pawn", move_type)]

\* MoveGenerator::extract_promotions: one move per destination and
\* promotion piece, the promotion piece in the piece field
extract_promotions(bitboard, offset, move_type) ==
    LET squares == BitboardIterator(bitboard)
        n == Len(PromotionPieces)
    IN [i \in 1 .. Len(squares) * n |->
           Move_new(squares[((i - 1) \div n) + 1] - offset, squares[((i - 1) \div n) + 1],
                    PromotionPieces[((i - 1) % n) + 1], move_type)]

\* MoveGenerator::generate_quiet_pawn_pushes
generate_quiet_pawn_pushes(b, all_pawns, direction) ==
    LET pawns == all_pawns \ direction.rank_7
        empty_squares == bb_empty(b)
        single_pushes == shift(pawns, direction.north) \cap empty_squares
        double_pawns == single_pushes \cap direction.rank_3
        double_pushes == shift(double_pawns, direction.north) \cap empty_squares
    IN extract_pawn_moves(single_pushes, direction.north, "Quiet")
       \o extract_pawn_moves(double_pushes, direction.north + direction.north, "Quiet")

\* MoveGenerator::generate_pawn_captures
generate_pawn_captures(b, all_pawns, direction) ==
    LET pawns == all_pawns \ direction.rank_7
        enemy_pieces == bb_color(b, opposite(b.active_color))
        left_pawn_attacks == shift(pawns, direction.north + WEST) \cap enemy_pieces
        right_pawn_attacks == shift(pawns, direction.north + EAST) \cap enemy_pieces
    IN extract_pawn_moves(left_pawn_attacks, direction.north + WEST, "Capture")
       \o extract_pawn_moves(right_pawn_attacks, direction.north + EAST, "Capture")

\* MoveGenerator::generate_en_passants
generate_en_passants(b, pawns, direction) ==
    LET en_passant_target == IF b.en_passant_target # None
                             THEN {b.en_passant_target[1]} ELSE {}
        left_pawn_attacks == shift(pawns, direction.north + WEST) \cap en_passant_target
        right_pawn_attacks == shift(pawns, direction.north + EAST) \cap en_passant_target
    IN extract_pawn_moves(left_pawn_attacks, direction.north + WEST, "EnPassant")
       \o extract_pawn_moves(right_pawn_attacks, direction.north + EAST, "EnPassant")

\* MoveGenerator::generate_promotions
generate_promotions(b, all_pawns, direction) ==
    LET pawns == all_pawns \cap direction.rank_7
        enemy_pieces == bb_color(b, opposite(b.active_color))
        empty_squares == bb_empty(b)
        single_pushes == shift(pawns, direction.north) \cap empty_squares
        left_pawn_attacks == shift(pawns, direction.north + WEST) \cap enemy_pieces
        right_pawn_attacks == shift(pawns, direction.north + EAST) \cap enemy_pieces
    IN extract_promotions(single_pushes, direction.north, "Promotion")
       \o extract_promotions(left_pawn_attacks, direction.north + WEST, "Promotion")
       \o extract_promotions(right_pawn_attacks, direction.north + EAST, "Promotion")

\* MoveGenerator::generate_pseudo_legal_pawn_moves
generate_pseudo_legal_pawn_moves(b) ==
    LET color == b.active_color
        pawns == bb(b, color, "Pawn")
        direction == PawnDirection_new(color)
    IN generate_quiet_pawn_pushes(b, pawns, direction)
       \o generate_pawn_captures(b, pawns, direction)
       \o generate_en_passants(b, pawns, direction)
       \o generate_promotions(b, pawns, direction)

\* MoveGenerator::extract_castles
extract_castles(color, side_to_castle, move_type) ==
    LET starting_square == IF color = "White" THEN 4 ELSE 60
        king_side_square == IF color = "White" THEN 6 ELSE 62
        queen_side_square == IF color = "White" THEN 2 ELSE 58
    IN IF side_to_castle = "King"
       THEN <<Move_new(starting_square, king_side_square, "King", move_type)>>
       ELSE IF side_to_castle = "Queen"
       THEN <<Move_new(starting_square, queen_side_square, "King", move_type)>>
       ELSE << >>

\* MoveGenerator::generate_pseudo_legal_castles
generate_pseudo_legal_castles(b) ==
    LET color == b.active_color
        all_pieces == bb_all(b)
        rights == castling_ability(b, color)
        king_side_mask == IF color = "White" THEN WHITE_KING_SIDE ELSE BLACK_KING_SIDE
        queen_side_mask == IF color = "White" THEN WHITE_QUEEN_SIDE ELSE BLACK_QUEEN_SIDE
    IN (IF rights[1] /\ king_side_mask \cap all_pieces = {}
        THEN extract_castles(color, "King", "Castle") ELSE << >>)
       \o (IF rights[2] /\ queen_side_mask \cap all_pieces = {}
           THEN extract_castles(color, "Queen", "Castle") ELSE << >>)

\* MoveGenerator::extract_moves
extract_moves(bitboard, from, piece_type, move_type) ==
    LET squares == BitboardIterator(bitboard)
    IN [i \in 1 .. Len(squares) |-> Move_new(from, squares[i], piece_type, move_type)]

\* MoveGenerator::generate_pseudo_legal_moves: the moves of the pieces of
\* one kind, from the i-th of their squares on
RECURSIVE pseudo_legal_from(_, _, _, _)
pseudo_legal_from(b, piece, squares, i) ==
    IF i > Len(squares) THEN << >>
    ELSE LET square == squares[i]
             destinations == IF piece \in {"Knight", "King"}
                             THEN non_sliding_moves(square, piece)
                             ELSE sliding_moves(square, bb_all(b), piece)
             quiet_moves == destinations \cap bb_empty(b)
             capture_moves == destinations \cap bb_color(b, opposite(b.active_color))
         IN extract_moves(quiet_moves, square, piece, "Quiet")
            \o extract_moves(capture_moves, square, piece, "Capture")
            \o pseudo_legal_from(b, piece, squares, i + 1)

generate_pseudo_legal_moves(b, piece) ==
    pseudo_legal_from(b, piece, BitboardIterator(bb(b, b.active_color, piece)), 1)

\* MoveGenerator::attacks_to
attacks_to(b, square) ==
    LET color == b.active_color
        enemy == opposite(color)
        square_bb == {square}
        occupancy == bb_all(b) \ bb(b, color, "King")
        pawn_attacks == IF color = "White"
                        THEN shift(square_bb, NORTH + WEST) \cup shift(square_bb, NORTH + EAST)
                        ELSE shift(square_bb, SOUTH + WEST) \cup shift(square_bb, SOUTH + EAST)
    IN (pawn_attacks \cap bb(b, enemy, "Pawn"))
       \cup (non_sliding_moves(square, "Knight") \cap bb(b, enemy, "Knight"))
       \cup (sliding_moves(square, occupancy, "Bishop") \cap bb(b, enemy, "Bishop"))
       \cup (sliding_moves(square, occupancy, "Rook") \cap bb(b, enemy, "Rook"))
       \cup (non_sliding_moves(square, "King") \cap bb(b, enemy, "King"))
       \cup (sliding_moves(square, occupancy, "Queen") \cap bb(b, enemy, "Queen"))

\* MoveGenerator::get_pinned_pieces
get_pinned_pieces(b, king_sq) ==
    LET color == b.active_color
        enemy == opposite(color)
        occupancy == bb_all(b)
        king_bb == bb(b, color, "King")
        enemy_bishops == bb(b, enemy, "Bishop")
        enemy_rooks == bb(b, enemy, "Rook")
        enemy_queens == bb(b, enemy, "Queen")
        pinners == (sliding_moves(king_sq, enemy_bishops, "Bishop") \cap enemy_bishops)
                   \cup (sliding_moves(king_sq, enemy_rooks, "Rook") \cap enemy_rooks)
                   \cup (sliding_moves(king_sq, enemy_queens, "Queen") \cap enemy_queens)
        potential_pinned_pieces(pinner) ==
            (between(pinner, king_sq, TRUE) \cap occupancy) \ ({pinner} \cup king_bb)
    IN UNION { potential_pinned_pieces(pinner) :
                 pinner \in { p \in pinners : Cardinality(potential_pinned_pieces(p)) = 1 } }

\* MoveGenerator::king_square
king_square(b) == trailing_zeros(bb(b, b.active_color, "King"))

\* MoveGenerator::is_legal_king_move
is_legal_king_move(b, mv) == attacks_to(b, mv.to) = {}

\* MoveGenerator::is_pinned
is_pinned(mv, pinned_pieces) == pinned_pieces \cap {mv.from} # {}

\* MoveGenerator::is_legal_pinned_move
is_legal_pinned_move(mv, king_sq) == between(mv.to, mv.from, FALSE) \cap {king_sq} # {}

\* MoveGenerator::is_legal_castle
is_legal_castle(b, mv, num_checks) ==
    LET color == b.active_color
        king_side_square == IF color = "White" THEN 6 ELSE 62
        king_side_checks == IF color = "White" THEN {5, 6} ELSE {61, 62}
        queen_side_checks == IF color = "White" THEN {2, 3} ELSE {58, 59}
        squares_to_check == IF mv.to = king_side_square THEN king_side_checks
                            ELSE queen_side_checks
    IN IF num_checks # 0 THEN FALSE
       ELSE \A square \in squares_to_check : attacks_to(b, square) = {}

RECURSIVE is_legal_non_king_move(_, _, _, _, _)

\* MoveGenerator::is_legal_en_passant
is_legal_en_passant(b, mv, king_sq) ==
    LET color == b.active_color
        en_passant_square == IF color = "White" THEN mv.to - 8 ELSE mv.to + 8
        temp_move == Move_new(mv.from, mv.to, "Pawn", "Capture")
        removed == remove_piece(b, opposite(color), "Pawn", en_passant_square)
    IN is_legal_non_king_move(removed, temp_move, attacks_to(removed, king_sq),
                              get_pinned_pieces(removed, king_sq), king_sq)

\* MoveGenerator::is_legal_non_king_move
is_legal_non_king_move(b, mv, checkers, pinned_pieces, king_sq) ==
    LET num_checks == Cardinality(checkers)
        pinned == is_pinned(mv, pinned_pieces)
        attacker == trailing_zeros(checkers)
        attacking_ray == between(attacker, king_sq, TRUE)
    IN IF num_checks > 1 THEN FALSE
       ELSE IF mv.move_type = "EnPassant" THEN is_legal_en_passant(b, mv, king_sq)
       ELSE IF mv.move_type = "Castle" THEN is_legal_castle(b, mv, num_checks)
       ELSE IF num_checks = 1
            THEN IF mv.to = attacker THEN ~pinned
                 ELSE ~pinned /\ attacking_ray \cap {mv.to} # {}
       ELSE IF pinned THEN is_legal_pinned_move(mv, king_sq)
       ELSE TRUE

\* MoveGenerator::is_legal
is_legal(b, mv, checkers, pinned_pieces, king_sq) ==
    IF mv.piece_type = "King" /\ mv.move_type # "Castle"
    THEN is_legal_king_move(b, mv)
    ELSE is_legal_non_king_move(b, mv, checkers, pinned_pieces, king_sq)

\* MoveGenerator::generate_moves on a board of pieces
MoveGenerator_generate_moves(b) ==
    LET moves == generate_pseudo_legal_castles(b)
                 \o generate_pseudo_legal_pawn_moves(b)
                 \o generate_pseudo_legal_moves(b, "King")
                 \o generate_pseudo_legal_moves(b, "Knight")
                 \o generate_pseudo_legal_moves(b, "Bishop")
                 \o generate_pseudo_legal_moves(b, "Rook")
                 \o generate_pseudo_legal_moves(b, "Queen")
        king_sq == king_square(b)
        pinned_pieces == get_pinned_pieces(b, king_sq)
        checkers == attacks_to(b, king_sq)
    IN SelectSeq(moves, LAMBDA mv : is_legal(b, mv, checkers, pinned_pieces, king_sq))

\* MoveGenerator::perft, and its loop over the moves from the i-th on
RECURSIVE perft(_, _)
RECURSIVE perft_nodes(_, _, _, _)
perft_nodes(b, moves, i, depth) ==
    IF i > Len(moves) THEN 0
    ELSE perft(Board_clone_with_move(b, moves[i]), depth - 1)
         + perft_nodes(b, moves, i + 1, depth)

perft(b, depth) ==
    LET moves == MoveGenerator_generate_moves(b)
    IN IF depth = 0 THEN 1
       ELSE IF depth = 1 THEN Len(moves)
       ELSE perft_nodes(b, moves, 1, depth)

\* MoveGenerator::run_perft
run_perft(b, depth) == perft(b, depth)

(***************************************************************************)
(* Boards the move generator is run on: the start position and positions   *)
(* with pins, checks, castles, promotions and en passant captures, each    *)
(* followed through the moves the generator returns.                       *)
(***************************************************************************)
\* a board from a set of <<square, color, kind>> placements
Place(placed, active, castling, en_passant_target) ==
    Board_new([s \in Squares |->
                  IF \E p \in placed : p[1] = s
                  THEN LET p == CHOOSE q \in placed : q[1] = s IN PieceOn(p[2], p[3])
                  ELSE None],
              active, castling, en_passant_target)

NoCastling == [wk |-> FALSE, wq |-> FALSE, bk |-> FALSE, bq |-> FALSE]

AllCastling == [wk |-> TRUE, wq |-> TRUE, bk |-> TRUE, bq |-> TRUE]

BackRank == <<"Rook", "Knight", "Bishop", "Queen", "King", "Bishop", "Knight", "Rook">>

\* rnbqkbnr/pppppppp/8/8/8/8/PPPPPPPP/RNBQKBNR w KQkq - 0 1
StartPosition ==
    Place({ <<f, "White", BackRank[f + 1]>> : f \in 0 .. 7 }
          \cup { <<8 + f, "White", "Pawn">> : f \in 0 .. 7 }
          \cup { <<48 + f, "Black", "Pawn">> : f \in 0 .. 7 }
          \cup { <<56 + f, "Black", BackRank[f + 1]>> : f \in 0 .. 7 },
          "White", AllCastling, None)

\* r3k2r/p1ppqpb1/bn2pnp1/3PN3/1p2P3/2N2Q1p/PPPBBPPP/R3K2R w KQkq - 0 1
PerftPosition2 ==
    Place({ <<56, "Black", "Rook">>, <<60, "Black", "King">>, <<63, "Black", "Rook">>,
            <<48, "Black", "Pawn">>, <<50, "Black", "Pawn">>, <<51, "Black", "Pawn">>,
            <<52, "Black", "Queen">>, <<53, "Black", "Pawn">>, <<54, "Black", "Bishop">>,
            <<40, "Black", "Bishop">>, <<41, "Black", "Knight">>, <<44, "Black", "Pawn">>,
            <<45, "Black", "Knight">>, <<46, "Black", "Pawn">>, <<35, "White", "Pawn">>,
            <<36, "White", "Knight">>, <<25, "Black", "Pawn">>, <<28, "White", "Pawn">>,
            <<18, "White", "Knight">>, <<21, "White", "Queen">>, <<23, "Black", "Pawn">>,
            <<8, "White", "Pawn">>, <<9, "White", "Pawn">>, <<10, "White", "Pawn">>,
            <<11, "White", "Bishop">>, <<12, "White", "Bishop">>, <<13, "White", "Pawn">>,
            <<14, "White", "Pawn">>, <<15, "White", "Pawn">>, <<0, "White", "Rook">>,
            <<4, "White", "King">>, <<7, "White", "Rook">> },
          "White", AllCastling, None)

\* 8/2p5/3p4/KP5r/1R3p1k/8/4P1P1/8 w - - 0 1
PerftPosition3 ==
    Place({ <<50, "Black", "Pawn">>, <<43, "Black", "Pawn">>, <<32, "White", "King">>,
            <<33, "White", "Pawn">>, <<39, "Black", "Rook">>, <<25, "White", "Rook">>,
            <<29, "Black", "Pawn">>, <<31, "Black", "King">>, <<12, "White", "Pawn">>,
            <<14, "White", "Pawn">> },
          "White", NoCastling, None)

\* 4r1k1/8/8/b7/7q/8/3NRB2/4K3 w - - 0 1 : rook, knight and bishop pinned
PinnedPosition ==
    Place({ <<4, "White", "King">>, <<12, "White", "Rook">>, <<11, "White", "Knight">>,
            <<13, "White", "Bishop">>, <<60, "Black", "Rook">>, <<32, "Black", "Bishop">>,
            <<31, "Black", "Queen">>, <<62, "Black", "King">> },
          "White", NoCastling, None)

\* r3k2r/8/b7/8/8/8/8/R3K2R w KQkq - 0 1 : f1 is attacked
CastlePosition ==
    Place({ <<4, "White", "King">>, <<0, "White", "Rook">>, <<7, "White", "Rook">>,
            <<60, "Black", "King">>, <<56, "Black", "Rook">>, <<63, "Black", "Rook">>,
            <<40, "Black", "Bishop">> },
          "White", AllCastling, None)

\* r1n5/1P4k1/8/8/8/8/8/4K3 b - - 0 1 : White promotes after Black's move
PromotionPosition ==
    Place({ <<4, "White", "King">>, <<49, "White", "Pawn">>, <<56, "Black", "Rook">>,
            <<58, "Black", "Knight">>, <<54, "Black", "King">> },
          "Black", NoCastling, None)

\* 4r1k1/8/8/8/8/5n2/8/3QK3 w - - 0 1 : knight and rook both give check
DoubleCheckPosition ==
    Place({ <<4, "White", "King">>, <<3, "White", "Queen">>, <<21, "Black", "Knight">>,
            <<60, "Black", "Rook">>, <<62, "Black", "King">> },
          "White", NoCastling, None)

\* 6k1/1b1p4/8/2P1P3/4K3/8/8/8 b - - 0 1 : d7d5 gives check, and taking the
\* pawn en passant opens the bishop's diagonal
EnPassantPosition ==
    Place({ <<28, "White", "King">>, <<34, "White", "Pawn">>, <<36, "White", "Pawn">>,
            <<51, "Black", "Pawn">>, <<49, "Black", "Bishop">>, <<62, "Black", "King">> },
          "Black", NoCastling, None)

\* 6k1/3p4/8/2P1P3/4K3/8/8/8 b - - 0 1 : d7d5 gives check, the pawn can be
\* taken en passant
EnPassantCheckPosition ==
    Place({ <<28, "White", "King">>, <<34, "White", "Pawn">>, <<36, "White", "Pawn">>,
            <<51, "Black", "Pawn">>, <<62, "Black", "King">> },
          "Black", NoCastling, None)

\* 1b4k1/3p4/8/4P3/8/8/7K/8 b - - 0 1 : the pawn e5 is pinned by the bishop
\* b8; after d7d5 it can take en passant on d6, along the pin
EnPassantPinPosition ==
    Place({ <<15, "White", "King">>, <<36, "White", "Pawn">>, <<51, "Black", "Pawn">>,
            <<57, "Black", "Bishop">>, <<62, "Black", "King">> },
          "Black", NoCastling, None)

TestBoards ==
    { StartPosition, PerftPosition2, PerftPosition3, PinnedPosition, CastlePosition, PromotionPosition,
      DoubleCheckPosition, EnPassantPosition, EnPassantCheckPosition, EnPassantPinPosition }

\* Number of moves played from a test board.
MaxPlies == 1

\* Largest depth perft is run to.
PerftDepth == 2

MoveGenIdle ==
    /\ chess = StartPosition
    /\ plies = 0

MoveGenInit ==
    /\ chess \in TestBoards
    /\ plies = 0

\* one of the moves generate_moves returns is played, as perft plays it
MakeMove ==
    /\ plies < MaxPlies
    /\ LET moves == MoveGenerator_generate_moves(chess)
       IN \E i \in 1 .. Len(moves) : chess' = Board_clone_with_move(chess, moves[i])
    /\ plies' = plies + 1
    /\ UNCHANGED <<svars, kvars, cvars>>

(***************************************************************************)
(*                          eval.rs : Evaluator                            *)
(* A piece-square table lists rank 8 first: index 0 is a8, index 63 is h1. *)
(***************************************************************************)
OPENING_PAWN_TABLE ==
    <<    0,    0,    0,    0,    0,    0,    0,    0,
         98,  134,   61,   95,   68,  126,   34,  -11,
         -6,    7,   26,   31,   65,   56,   25,  -20,
        -14,   13,    6,   21,   23,   12,   17,  -23,
        -27,   -2,   -5,   12,   17,    6,   10,  -25,
        -26,   -4,   -4,  -10,    3,    3,   33,  -12,
        -35,   -1,  -20,  -23,  -15,   24,   38,  -22,
          0,    0,    0,    0,    0,    0,    0,    0 >>

OPENING_KNIGHT_TABLE ==
    << -167,  -89,  -34,  -49,   61,  -97,  -15, -107,
        -73,  -41,   72,   36,   23,   62,    7,  -17,
        -47,   60,   37,   65,   84,  129,   73,   44,
         -9,   17,   19,   53,   37,   69,   18,   22,
        -13,    4,   16,   13,   28,   19,   21,   -8,
        -23,   -9,   12,   10,   19,   17,   25,  -16,
        -29,  -53,  -12,   -3,   -1,   18,  -14,  -19,
       -105,  -21,  -58,  -33,  -17,  -28,  -19,  -23 >>

OPENING_BISHOP_TABLE ==
    <<  -29,    4,  -82,  -37,  -25,  -42,    7,   -8,
        -26,   16,  -18,  -13,   30,   59,   18,  -47,
        -16,   37,   43,   40,   35,   50,   37,   -2,
         -4,    5,   19,   50,   37,   37,    7,   -2,
         -6,   13,   13,   26,   34,   12,   10,    4,
          0,   15,   15,   15,   14,   27,   18,   10,
          4,   15,   16,    0,    7,   21,   33,    1,
        -33,   -3,  -14,  -21,  -13,  -12,  -39,  -21 >>

OPENING_ROOK_TABLE ==
    <<   32,   42,   32,   51,   63,    9,   31,   43,
         27,   32,   58,   62,   80,   67,   26,   44,
         -5,   19,   26,   36,   17,   45,   61,   16,
        -24,  -11,    7,   26,   24,   35,   -8,  -20,
        -36,  -26,  -12,   -1,    9,   -7,    6,  -23,
        -45,  -25,  -16,  -17,    3,    0,   -5,  -33,
        -44,  -16,  -20,   -9,   -1,   11,   -6,  -71,
        -19,  -13,    1,   17,   16,    7,  -37,  -26 >>

OPENING_QUEEN_TABLE ==
    <<  -28,    0,   29,   12,   59,   44,   43,   45,
        -24,  -39,   -5,    1,  -16,   57,   28,   54,
        -13,  -17,    7,    8,   29,   56,   47,   57,
        -27,  -27,  -16,  -16,   -1,   17,   -2,    1,
         -9,  -26,   -9,  -10,   -2,   -4,    3,   -3,
        -14,    2,  -11,   -2,   -5,    2,   14,    5,
        -35,   -8,   11,    2,    8,   15,   -3,    1,
         -1,  -18,   -9,   10,  -15,  -25,  -31,  -50 >>

OPENING_KING_TABLE ==
    <<  -65,   23,   16,  -15,  -56,  -34,    2,   13,
         29,   -1,  -20,   -7,   -8,   -4,  -38,  -29,
         -9,   24,    2,  -16,  -20,    6,   22,  -22,
        -17,  -20,  -12,  -27,  -30,  -25,  -14,  -36,
        -49,   -1,  -27,  -39,  -46,  -44,  -33,  -51,
        -14,  -14,  -22,  -46,  -44,  -30,  -15,  -27,
          1,    7,   -8,  -64,  -43,  -16,    9,    8,
        -15,   36,   12,  -54,    8,  -28,   24,   14 >>

ENDGAME_PAWN_TABLE ==
    <<    0,    0,    0,    0,    0,    0,    0,    0,
        178,  173,  158,  134,  147,  132,  165,  187,
         94,  100,   85,   67,   56,   53,   82,   84,
         32,   24,   13,    5,   -2,    4,   17,   17,
         13,    9,   -3,   -7,   -7,   -8,    3,   -1,
          4,    7,   -6,    1,    0,   -5,   -1,   -8,
         13,    8,    8,   10,   13,    0,    2,   -7,
          0,    0,    0,    0,    0,    0,    0,    0 >>

ENDGAME_KNIGHT_TABLE ==
    <<  -58,  -38,  -13,  -28,  -31,  -27,  -63,  -99,
        -25,   -8,  -25,   -2,   -9,  -25,  -24,  -52,
        -24,  -20,   10,    9,   -1,   -9,  -19,  -41,
        -17,    3,   22,   22,   22,   11,    8,  -18,
        -18,   -6,   16,   25,   16,   17,    4,  -18,
        -23,   -3,   -1,   15,   10,   -3,  -20,  -22,
        -42,  -20,  -10,   -5,   -2,  -20,  -23,  -44,
        -29,  -51,  -23,  -15,  -22,  -18,  -50,  -64 >>

ENDGAME_BISHOP_TABLE ==
    <<  -14,  -21,  -11,   -8,   -7,   -9,  -17,  -24,
         -8,   -4,    7,  -12,   -3,  -13,   -4,  -14,
          2,   -8,    0,   -1,   -2,    6,    0,    4,
         -3,    9,   12,    9,   14,   10,    3,    2,
         -6,    3,   13,   19,    7,   10,   -3,   -9,
        -12,   -3,    8,   10,   13,    3,   -7,  -15,
        -14,  -18,   -7,   -1,    4,   -9,  -15,  -27,
        -23,   -9,  -23,   -5,   -9,  -16,   -5,  -17 >>

ENDGAME_ROOK_TABLE ==
    <<   13,   10,   18,   15,   12,   12,    8,    5,
         11,   13,   13,   11,   -3,    3,    8,    3,
          7,    7,    7,    5,    4,   -3,   -5,   -3,
          4,    3,   13,    1,    2,    1,   -1,    2,
          3,    5,    8,    4,   -5,   -6,   -8,  -11,
         -4,    0,   -5,   -1,   -7,  -12,   -8,  -16,
         -6,   -6,    0,    2,   -9,   -9,  -11,   -3,
         -9,    2,    3,   -1,   -5,  -13,    4,  -20 >>

ENDGAME_QUEEN_TABLE ==
    <<   -9,   22,   22,   27,   27,   19,   10,   20,
        -17,   20,   32,   41,   58,   25,   30,    0,
        -20,    6,    9,   49,   47,   35,   19,    9,
          3,   22,   24,   45,   57,   40,   57,   36,
        -18,   28,   19,   47,   31,   34,   39,   23,
        -16,  -27,   15,    6,    9,   17,   10,    5,
        -22,  -23,  -30,  -16,  -16,  -23,  -36,  -32,
        -33,  -28,  -22,  -43,   -5,  -32,  -20,  -41 >>

ENDGAME_KING_TABLE ==
    <<  -74,  -35,  -18,  -18,  -11,   15,    4,  -17,
        -12,   17,   14,   17,   17,   38,   23,   11,
         10,   17,   23,   15,   20,   45,   44,   13,
         -8,   22,   24,   27,   26,   33,   26,    3,
        -18,   -4,   21,   24,   27,   23,    9,  -11,
        -19,   -3,   11,   21,   23,   16,    7,   -9,
        -27,  -11,    4,   13,   14,    4,   -5,  -17,
        -53,  -34,  -21,  -11,  -28,  -14,  -24,  -43 >>

\* PieceIterator: the six piece kinds in index order
PieceIterator == <<"Pawn", "Knight", "Bishop", "Rook", "Queen", "King">>

\* Evaluator::opening_value
opening_value(piece) ==
    CASE piece = "Pawn" -> 82
      [] piece = "Knight" -> 337
      [] piece = "Bishop" -> 365
      [] piece = "Rook" -> 477
      [] piece = "Queen" -> 1025
      [] piece = "King" -> 0

\* Evaluator::endgame_value
endgame_value(piece) ==
    CASE piece = "Pawn" -> 94
      [] piece = "Knight" -> 281
      [] piece = "Bishop" -> 297
      [] piece = "Rook" -> 512
      [] piece = "Queen" -> 936
      [] piece = "King" -> 0

\* Evaluator::populate_table
populate_table(table, piece_value) == [i \in 1 .. 64 |-> table[i] + piece_value]

\* Evaluator::opening_table
opening_table(piece) ==
    populate_table(CASE piece = "Pawn" -> OPENING_PAWN_TABLE
                     [] piece = "Knight" -> OPENING_KNIGHT_TABLE
                     [] piece = "Bishop" -> OPENING_BISHOP_TABLE
                     [] piece = "Rook" -> OPENING_ROOK_TABLE
                     [] piece = "Queen" -> OPENING_QUEEN_TABLE
                     [] piece = "King" -> OPENING_KING_TABLE,
                   opening_value(piece))

\* Evaluator::endgame_table
endgame_table(piece) ==
    populate_table(CASE piece = "Pawn" -> ENDGAME_PAWN_TABLE
                     [] piece = "Knight" -> ENDGAME_KNIGHT_TABLE
                     [] piece = "Bishop" -> ENDGAME_BISHOP_TABLE
                     [] piece = "Rook" -> ENDGAME_ROOK_TABLE
                     [] piece = "Queen" -> ENDGAME_QUEEN_TABLE
                     [] piece = "King" -> ENDGAME_KING_TABLE,
                   endgame_value(piece))

\* Evaluator::piece_square_table
piece_square_table(piece, phase) ==
    IF phase = "Opening" THEN opening_table(piece) ELSE endgame_table(piece)

\* Evaluator::initialize_tables
initialize_tables(phase) ==
    [k \in 1 .. 6 |-> piece_square_table(PieceIterator[k], phase)]

\* Evaluator.opening_tables and Evaluator.endgame_tables: set by new and
\* never assigned again, so they are kept out of the evaluator's state.
opening_tables == initialize_tables("Opening")

endgame_tables == initialize_tables("Endgame")

\* Evaluator::new: the three fields evaluate assigns
Evaluator_new == [gamephase |-> 0, opening_score |-> 0, endgame_score |-> 0]

\* Evaluator::phase_increment
phase_increment(piece) ==
    CASE piece = "Pawn" -> 0
      [] piece = "Knight" -> 1
      [] piece = "Bishop" -> 1
      [] piece = "Rook" -> 2
      [] piece = "Queen" -> 4
      [] piece = "King" -> 0

\* evaluate_piece_position lines 213-216 reading every piece's square as it is
table_square_unflipped(color, bit) == bit

\* evaluate_piece_position lines 213-216: the table index of a piece's square
table_square(color, bit) ==
    IF color = "White" THEN (7 - bit \div 8) * 8 + (bit % 8) ELSE bit

\* evaluate_piece_position lines 212-220: the loop over the bits, from the
\* i-th bit on
RECURSIVE evaluate_bits(_, _, _, _)
evaluate_bits(color, piece, bits, i) ==
    IF i > Len(bits) THEN <<0, 0, 0>>
    ELSE LET square == table_square(color, bits[i])
             rest == evaluate_bits(color, piece, bits, i + 1)
         IN << opening_tables[Piece_index(piece) + 1][square + 1] + rest[1],
               endgame_tables[Piece_index(piece) + 1][square + 1] + rest[2],
               phase_increment(piece) + rest[3] >>

\* Evaluator::evaluate_piece_position
evaluate_piece_position(color, piece, b) ==
    evaluate_bits(color, piece, BitboardIterator(bb(b, color, piece)), 1)

\* Evaluator::evaluate_piece
evaluate_piece(ev, color, piece, b) ==
    LET p == evaluate_piece_position(color, piece, b)
        o == evaluate_piece_position(opposite(color), piece, b)
    IN [opening_score |-> ev.opening_score + (p[1] - o[1]),
        endgame_score |-> ev.endgame_score + (p[2] - o[2]),
        gamephase |-> ev.gamephase + (p[3] + o[3])]

\* Evaluator::reset leaving the game phase as it is
Evaluator_reset_scores(ev) ==
    [opening_score |-> 0, endgame_score |-> 0, gamephase |-> ev.gamephase]

\* Evaluator::reset
Evaluator_reset(ev) ==
    [opening_score |-> 0, endgame_score |-> 0, gamephase |-> 0]

\* evaluate lines 171-173: the loop over the piece kinds, from the k-th on
RECURSIVE evaluate_pieces(_, _, _, _)
evaluate_pieces(ev, color, b, k) ==
    IF k > Len(PieceIterator) THEN ev
    ELSE evaluate_pieces(evaluate_piece(ev, color, PieceIterator[k], b), color, b, k + 1)

\* i32 division: the quotient truncated toward zero
i32_div(a, b) == IF a >= 0 THEN a \div b ELSE -((-a) \div b)

\* Evaluator::evaluate: the evaluator it leaves and the score it returns
Evaluator_evaluate(ev, b) ==
    LET e == evaluate_pieces(Evaluator_reset(ev), b.active_color, b, 1)
        opening_phase == IF e.gamephase > 24 THEN 24 ELSE e.gamephase
        endgame_phase == 24 - opening_phase
    IN [evaluator |-> e,
        score |-> i32_div(e.opening_score * opening_phase + e.endgame_score * endgame_phase,
                          24)]

\* QQQRKQQ1 on the first rank against 3qk3 on the eighth, White to move:
\* promotions have taken the game phase past 24
QueensPosition ==
    Place({ <<0, "White", "Queen">>, <<1, "White", "Queen">>, <<2, "White", "Queen">>,
            <<3, "White", "Rook">>, <<4, "White", "King">>, <<5, "White", "Queen">>,
            <<6, "White", "Queen">>, <<59, "Black", "Queen">>, <<60, "Black", "King">> },
          "White", NoCastling, None)

\* the boards evaluate is called on
EvalBoards ==
    { StartPosition, PerftPosition2, PerftPosition3, PinnedPosition, CastlePosition,
      PromotionPosition, EnPassantPosition, QueensPosition }

\* Number of operations applied to a component run on its own.
MaxOps == 2

\* the board to evaluate is replaced
EvPosition(b) ==
    /\ cops < MaxOps
    /\ clast.op # "position"
    /\ chess' = b
    /\ clast' = [op |-> "position"]
    /\ UNCHANGED <<plies, hist, evaluator, cprev, cops, clog>>

\* Evaluator::evaluate is called on the board
EvEvaluate ==
    /\ cops < MaxOps
    /\ LET r == Evaluator_evaluate(evaluator, chess)
       IN /\ evaluator' = r.evaluator
          /\ clast' = [op |-> "evaluate", board |-> chess, score |-> r.score]
    /\ cprev' = evaluator
    /\ cops' = cops + 1
    /\ clog' = Append(clog, clast')
    /\ UNCHANGED <<chess, plies, hist>>

(***************************************************************************)
(*                       history.rs : HistoryTable                         *)
(***************************************************************************)
\* HistoryTable::new
HistoryTable_new == [from \in 0 .. 63 |-> [to \in 0 .. 63 |-> 0]]

\* i32::wrapping_add of a non-negative addend
wrapping_add(a, b) ==
    IF a > I32_MAX - b THEN ((a - I32_MAX) + (b - I32_MAX)) - 2 ELSE a + b

\* i32::saturating_add of a non-negative addend (the addend is a square)
saturating_add(a, b) ==
    IF a > I32_MAX - b THEN I32_MAX ELSE a + b

\* HistoryTable::record_cutoff adding with wrap-around
record_cutoff_wrapping(scores, mv, depth) ==
    LET increment == depth * depth
    IN [scores EXCEPT ![mv.from][mv.to] = wrapping_add(scores[mv.from][mv.to], increment)]

\* HistoryTable::record_cutoff
record_cutoff(scores, mv, depth) ==
    LET increment == depth * depth
    IN [scores EXCEPT ![mv.from][mv.to] = saturating_add(scores[mv.from][mv.to], increment)]

\* HistoryTable::get_score
get_score(scores, mv) == scores[mv.from][mv.to]

\* HistoryTable::age
age(scores) == [from \in 0 .. 63 |-> [to \in 0 .. 63 |-> scores[from][to] \div 2]]

\* the moves of the tests: create_test_move(12, 28) and create_test_move(6, 21)
HistoryMoves == { create_test_move(12, 28), create_test_move(6, 21) }

\* the depths (u8) record_cutoff is called with
HistoryDepths == {0, 1, 5, 255}

\* Scores the entry of create_test_move(12, 28) holds when the run starts:
\* each is a sum of squares of depths, so earlier calls of record_cutoff
\* lead to it.
HistoryLevels == {25, I32_MAX - 255 * 255, I32_MAX - 24, I32_MAX}

\* no component is run on its own
ComponentIdle ==
    /\ hist = HistoryTable_new
    /\ evaluator = Evaluator_new
    /\ clast = [op |-> "new"]
    /\ cprev = None
    /\ cops = 0
    /\ clog = << >>

HistoryInit ==
    /\ \/ hist = HistoryTable_new /\ clast = [op |-> "new"]
       \/ \E v \in HistoryLevels :
             /\ hist = [HistoryTable_new EXCEPT ![12][28] = v]
             /\ clast = [op |-> "recorded"]
    /\ evaluator = Evaluator_new
    /\ cprev = None
    /\ cops = 0
    /\ clog = << >>

HRecordCutoff(mv, depth) ==
    /\ cops < MaxOps
    /\ hist' = record_cutoff(hist, mv, depth)
    /\ clast' = [op |-> "record_cutoff", mv |-> mv, depth |-> depth]
    /\ cprev' = hist
    /\ cops' = cops + 1
    /\ clog' = Append(clog, clast')
    /\ UNCHANGED evaluator

HAge ==
    /\ cops < MaxOps
    /\ hist' = age(hist)
    /\ clast' = [op |-> "age"]
    /\ cprev' = hist
    /\ cops' = cops + 1
    /\ clog' = Append(clog, clast')
    /\ UNCHANGED evaluator

(***************************************************************************)
(* The transposition table run on its own, through the searcher's          *)
(* store_in_transposition_table and the retrieve of its probe.             *)
(***************************************************************************)
\* The positions entries are stored for: the keys of L and Q3 meet in one
\* slot of a table of 8 slots, those of L and Q4 in one of a table of 9.
TableBoards == {"L", "Q3", "Q4", "A1"}

\* the (result, depth, bound) triples stored
TableEntries ==
    { [result |-> SearchResult_new(-10, None), depth |-> 1, bound |-> "Upper"],
      [result |-> SearchResult_new(25, Some(create_test_move(12, 28))), depth |-> 3,
       bound |-> "Exact"],
      [result |-> SearchResult_new(25, Some(create_test_move(6, 21))), depth |-> 1,
       bound |-> "Lower"] }

TStore(b, e) ==
    /\ cops < MaxOps
    /\ tt' = store_in_transposition_table(tt, b, e.result, e.depth, e.bound)
    /\ clast' = [op |-> "store", key |-> Zobrist_hash(b), score |-> e.result.score,
                 best_move |-> e.result.best_move, depth |-> e.depth, bound |-> e.bound]
    /\ cprev' = tt
    /\ cops' = cops + 1
    /\ clog' = Append(clog, clast')
    /\ UNCHANGED <<hist, evaluator, board, timer, history, clock, fbm, stack, ret, info, out, iters,
                   mates, gos>>

(***************************************************************************)
(* The position history run on its own, through the searcher's             *)
(* push_position and the pop of search_position.                           *)
(***************************************************************************)
\* Searcher::push_position leaving out a hash the stack already holds
push_position_once(h, b) ==
    IF \E i \in 1 .. Len(h) : h[i] = Zobrist_hash(b) THEN h
    ELSE PositionHistory_push(h, Zobrist_hash(b))

\* Searcher::push_position
push_position(h, b) == PositionHistory_push(h, Zobrist_hash(b))

\* the positions pushed
HistoryBoards == {"Q1", "Q2"}

\* Number of hashes pushed on the position history run on its own.
MaxPushes == 3

PPush(b) ==
    /\ Len(history) < MaxPushes
    /\ history' = push_position(history, b)
    /\ clast' = [op |-> "push", hash |-> Zobrist_hash(b)]
    /\ cprev' = history
    /\ cops' = cops + 1
    /\ clog' = Append(clog, clast')
    /\ UNCHANGED <<hist, evaluator, board, tt, timer, clock, fbm, stack, ret, info, out, iters,
                   mates, gos>>

PPop ==
    /\ cops < MaxPushes + MaxOps
    /\ history' = PositionHistory_pop(history)
    /\ clast' = [op |-> "pop"]
    /\ cprev' = history
    /\ cops' = cops + 1
    /\ clog' = Append(clog, clast')
    /\ UNCHANGED <<hist, evaluator, board, tt, timer, clock, fbm, stack, ret, info, out, iters,
                   mates, gos>>

Init ==
    /\ SearcherInit
    /\ KGhostInit
    /\ MoveGenIdle
    /\ ComponentIdle

Next ==
    \/ \E b \in Boards, d \in 0 .. MaxDepth, tl \in TimeLimits :
          FindBestMove(b, d, tl) /\ UNCHANGED <<mvars, cvars>>
    \/ IterHead /\ UNCHANGED <<mvars, cvars>>
    \/ NegamaxEnter /\ UNCHANGED <<mvars, cvars>>
    \/ NegamaxLoop /\ UNCHANGED <<mvars, cvars>>
    \/ NegamaxResume /\ UNCHANGED <<mvars, cvars>>
    \/ QuietEnter /\ UNCHANGED <<mvars, cvars>>
    \/ QuietLoop /\ UNCHANGED <<mvars, cvars>>
    \/ QuietResume /\ UNCHANGED <<mvars, cvars>>
    \/ Tick /\ UNCHANGED <<mvars, cvars>>

Spec == Init /\ [][Next]_vars

(***************************************************************************)
(*                    uci.rs : Flounder, the go command                    *)
(***************************************************************************)
\* a word of a command line, and a decimal numeral of one
Word(w) == [kw |-> w, num |-> -1]

Numeral(n) == [kw |-> "", num |-> n]

\* str::parse::<u8>
parse_u8(tok) == IF tok.kw = "" /\ tok.num >= 0 /\ tok.num <= 255 THEN Some(tok.num) ELSE None

\* str::parse::<u64>
parse_u64(tok) == IF tok.kw = "" /\ tok.num >= 0 THEN Some(tok.num) ELSE None

unwrap_or(opt, default) == IF opt # None THEN opt[1] ELSE default

saturating_sub(a, b) == IF a >= b THEN a - b ELSE 0

\* calculate_move_time lines 166-197: parts is indexed from 1 here
RECURSIVE move_time_args(_, _, _)
move_time_args(parts, i, acc) ==
    IF i > Len(parts) THEN acc
    ELSE IF parts[i].kw \in {"wtime", "btime", "winc", "binc"}
         THEN move_time_args(parts, i + 2,
                  IF i + 1 <= Len(parts)
                  THEN [acc EXCEPT ![parts[i].kw] = unwrap_or(parse_u64(parts[i + 1]), 0)]
                  ELSE acc)
    ELSE move_time_args(parts, i + 1, acc)

\* Flounder::calculate_move_time
calculate_move_time(b, parts, start_idx) ==
    LET a == move_time_args(parts, start_idx,
                            [wtime |-> 0, btime |-> 0, winc |-> 0, binc |-> 0])
        time_left == IF active_color(b) = "White" THEN a.wtime ELSE a.btime
        increment == IF active_color(b) = "White" THEN a.winc ELSE a.binc
        available == saturating_sub(time_left, 5000)
        base_time == available \div 25
    IN Some(base_time + increment)

\* handle_go_command lines 106-145: parts is indexed from 1 here
RECURSIVE go_args(_, _, _, _)
go_args(b, parts, i, acc) ==
    IF i > Len(parts) THEN acc
    ELSE IF parts[i].kw = "depth"
         THEN IF i + 1 <= Len(parts)
              THEN go_args(b, parts, i + 2,
                       IF parse_u8(parts[i + 1]) # None
                       THEN [acc EXCEPT !.depth = min(parse_u8(parts[i + 1])[1], 64)]
                       ELSE acc)
              ELSE go_args(b, parts, i + 1, acc)
    ELSE IF parts[i].kw = "movetime"
         THEN IF i + 1 <= Len(parts)
              THEN go_args(b, parts, i + 2,
                       IF parse_u64(parts[i + 1]) # None
                       THEN [acc EXCEPT !.time_limit = Some(parse_u64(parts[i + 1])[1])]
                       ELSE acc)
              ELSE go_args(b, parts, i + 1, acc)
    ELSE IF parts[i].kw \in {"wtime", "btime", "winc", "binc"}
         THEN go_args(b, parts, i + 8,
                      [acc EXCEPT !.time_limit = calculate_move_time(b, parts, i)])
    ELSE IF parts[i].kw = "infinite"
         THEN go_args(b, parts, i + 1, [depth |-> 64, time_limit |-> None])
    ELSE go_args(b, parts, i + 1, acc)

\* The go command lines the front end is given: a depth alone, a depth with
\* a move time, a depth with the two clocks and increments.
GoCommands ==
    { <<Word("go"), Word("depth"), Numeral(d)>> : d \in 0 .. MaxDepth }
    \cup { <<Word("go"), Word("depth"), Numeral(MaxDepth), Word("movetime"), Numeral(0)>> }
    \cup { <<Word("go"), Word("depth"), Numeral(MaxDepth), Word("wtime"), Numeral(4000),
             Word("btime"), Numeral(4000), Word("winc"), Numeral(0),
             Word("binc"), Numeral(0)>> }

\* Flounder::handle_position_command with a position of the table
UciPosition(b) ==
    /\ fbm.pc \in {"idle", "done"}
    /\ gos < MaxGo
    /\ board' = b
    /\ UNCHANGED <<killer_moves, klast, kprev, tt, timer, history, clock, fbm, stack, ret,
                   info, out, iters, mates, gos>>

\* Flounder::handle_go_command up to the call of find_best_move
UciGo(parts) ==
    /\ fbm.pc \in {"idle", "done"}
    /\ gos < MaxGo
    /\ LET args == go_args(board, parts, 2, [depth |-> 64, time_limit |-> None])
       IN Start("uci", board, args.depth, args.time_limit)
    /\ gos' = gos + 1
    /\ UNCHANGED <<board, out>>

\* Flounder::handle_ucinewgame_command
UciNewGame ==
    /\ fbm.pc = "done"
    /\ board' = "Q1"
    /\ killer_moves' = KillerMoves_new
    /\ tt' = TranspositionTable_new
    /\ timer' = SearchTimer_new
    /\ history' = PositionHistory_new
    /\ fbm' = [fbm EXCEPT !.pc = "idle"]
    /\ UNCHANGED <<klast, kprev, clock, stack, ret, info, out, iters, mates, gos>>

NextUci ==
    \/ \E b \in Boards : UciPosition(b) /\ UNCHANGED <<mvars, cvars>>
    \/ \E parts \in GoCommands : UciGo(parts) /\ UNCHANGED <<mvars, cvars>>
    \/ UciNewGame /\ UNCHANGED <<mvars, cvars>>
    \/ IterHead /\ UNCHANGED <<mvars, cvars>>
    \/ NegamaxEnter /\ UNCHANGED <<mvars, cvars>>
    \/ NegamaxLoop /\ UNCHANGED <<mvars, cvars>>
    \/ NegamaxResume /\ UNCHANGED <<mvars, cvars>>
    \/ QuietEnter /\ UNCHANGED <<mvars, cvars>>
    \/ QuietLoop /\ UNCHANGED <<mvars, cvars>>
    \/ QuietResume /\ UNCHANGED <<mvars, cvars>>

SpecUci == Init /\ [][NextUci]_vars

(***************************************************************************)
(* The killer table driven through its public operations alone.            *)
(***************************************************************************)
KInit ==
    /\ SearcherInit
    /\ KGhostInit
    /\ MoveGenIdle
    /\ ComponentIdle

KNext ==
    \/ \E mv \in TestMoves, ply \in TestPlies : KStore(mv, ply) /\ UNCHANGED <<svars, mvars, cvars>>
    \/ KClear /\ UNCHANGED <<svars, mvars, cvars>>
    \/ \E ply \in TestPlies : KClearPly(ply) /\ UNCHANGED <<svars, mvars, cvars>>

SpecKiller == KInit /\ [][KNext]_vars

(***************************************************************************)
(* The move generator run on the test boards and on the boards its moves   *)
(* lead to.                                                                *)
(***************************************************************************)
MGInit ==
    /\ SearcherInit
    /\ KGhostInit
    /\ MoveGenInit
    /\ ComponentIdle

MGNext == MakeMove

SpecMoveGen == MGInit /\ [][MGNext]_vars

(***************************************************************************)
(* The history table driven through its operations alone.                  *)
(***************************************************************************)
HInit ==
    /\ SearcherInit
    /\ KGhostInit
    /\ MoveGenIdle
    /\ HistoryInit

HNext ==
    \/ \E mv \in HistoryMoves, depth \in HistoryDepths :
          HRecordCutoff(mv, depth) /\ UNCHANGED <<svars, kvars, mvars>>
    \/ HAge /\ UNCHANGED <<svars, kvars, mvars>>

SpecHistory == HInit /\ [][HNext]_vars

TNext ==
    \E b \in TableBoards, e \in TableEntries : TStore(b, e) /\ UNCHANGED <<kvars, mvars>>

SpecTable == Init /\ [][TNext]_vars

PNext ==
    \/ \E b \in HistoryBoards : PPush(b) /\ UNCHANGED <<kvars, mvars>>
    \/ PPop /\ UNCHANGED <<kvars, mvars>>

SpecPositions == Init /\ [][PNext]_vars

(***************************************************************************)
(* The search timer run on its own: its operations in any order while the  *)
(* clock advances.                                                         *)
(***************************************************************************)
\* Number of milliseconds the clock advances.
MaxClock == 3

\* Number of operations applied to the timer.
MaxTimerOps == 3

\* Largest time limit, in milliseconds, the timer is started with.
MaxTimerLimit == 2

TimerLimits == {None} \cup { Some(l) : l \in 0 .. MaxTimerLimit }

\* the counts add_nodes is called with
NodeCounts == {0, 2, 1000}

\* an operation of the timer, recorded with the instant it is applied at
TimerOp(op, t) ==
    /\ cops < MaxTimerOps
    /\ timer' = t
    /\ clast' = op @@ [at |-> clock]
    /\ cprev' = timer
    /\ cops' = cops + 1
    /\ UNCHANGED <<killer_moves, klast, kprev, board, tt, history, clock, fbm, stack, ret,
                   info, out, iters, mates, gos, chess, plies, hist, evaluator, clog>>

TmStart(time_limit) ==
    TimerOp([op |-> "start", time_limit |-> time_limit],
            SearchTimer_start(timer, clock, time_limit))

TmReset == TimerOp([op |-> "reset"], SearchTimer_reset(timer, clock))

TmIncrementNodes == TimerOp([op |-> "increment_nodes"], increment_nodes(timer))

TmAddNodes(count) == TimerOp([op |-> "add_nodes", count |-> count], add_nodes(timer, count))

\* Instant::now advances by a millisecond
TmTick ==
    /\ clock < MaxClock
    /\ clock' = clock + 1
    /\ clast' = [op |-> "tick", at |-> clock]
    /\ cprev' = timer
    /\ UNCHANGED <<killer_moves, klast, kprev, board, tt, timer, history, fbm, stack, ret,
                   info, out, iters, mates, gos, chess, plies, hist, evaluator, cops, clog>>

TmNext ==
    \/ \E time_limit \in TimerLimits : TmStart(time_limit)
    \/ TmReset
    \/ TmIncrementNodes
    \/ \E count \in NodeCounts : TmAddNodes(count)
    \/ TmTick

SpecTimer == Init /\ [][TmNext]_vars

(***************************************************************************)
(* Searcher::order_moves run on its own: quiet moves are stored as killers *)
(* and the moves of a position are ordered.                                *)
(***************************************************************************)
\* the positions whose moves are ordered
OrderBoards == {"E", "A2", "V"}

\* the ply order_moves is called at
OrderPlies == {1}

\* the quiet moves negamax stores as killers
KillerCandidates ==
    { mv \in { Game[b].moves[i].mv : b \in {"E", "A2"}, i \in 1 .. 2 } : mv.move_type = "Quiet" }

\* negamax line 204: a quiet move that cut off is stored as a killer
OStore(mv, ply) ==
    /\ clast.op = "new"
    /\ KStore(mv, ply)

\* negamax line 174: the moves of the node are ordered
OOrder(b, tt_move, ply) ==
    /\ clast' = [op |-> "order_moves", board |-> b, tt_move |-> tt_move, ply |-> ply,
                 ordered |-> order_moves(killer_moves, b, generate_moves(b), tt_move, ply)]
    /\ UNCHANGED <<killer_moves, klast, kprev, hist, evaluator, cprev, cops, clog>>

ONext ==
    \/ \E mv \in KillerCandidates, ply \in OrderPlies :
          OStore(mv, ply) /\ UNCHANGED <<svars, mvars, cvars>>
    \/ \E b \in OrderBoards, ply \in OrderPlies :
          \E tt_move \in {None} \cup { Some(mv) : mv \in { generate_moves(b)[i] :
                                                          i \in 1 .. Len(generate_moves(b)) } } :
             OOrder(b, tt_move, ply) /\ UNCHANGED <<svars, mvars>>

SpecOrder == Init /\ [][ONext]_vars

(***************************************************************************)
(* find_best_move without a time limit on the tree positions, where no     *)
(* position occurs twice.                                                  *)
(***************************************************************************)
\* Largest max_depth find_best_move is called with on the tree.
MaxTreeDepth == 3

TreeNext ==
    \/ \E b \in TreeRoots, d \in 1 .. MaxTreeDepth :
          FindBestMove(b, d, None) /\ UNCHANGED <<mvars, cvars>>
    \/ IterHead /\ UNCHANGED <<mvars, cvars>>
    \/ NegamaxEnter /\ UNCHANGED <<mvars, cvars>>
    \/ NegamaxLoop /\ UNCHANGED <<mvars, cvars>>
    \/ NegamaxResume /\ UNCHANGED <<mvars, cvars>>
    \/ QuietEnter /\ UNCHANGED <<mvars, cvars>>
    \/ QuietLoop /\ UNCHANGED <<mvars, cvars>>
    \/ QuietResume /\ UNCHANGED <<mvars, cvars>>

SpecTree == Init /\ [][TreeNext]_vars

(***************************************************************************)
(* The front end given go commands with clock arguments, on positions      *)
(* without a legal move (S with White to move, T111 with Black to move),   *)
(* where every iteration of find_best_move is one call of negamax.         *)
(***************************************************************************)
GoBoards == {"S", "T111"}

\* The go command lines with clock arguments the front end is given.
ClockCommands ==
    { <<Word("go"), Word("wtime"), Numeral(30000), Word("btime"), Numeral(55000),
        Word("winc"), Numeral(100), Word("binc"), Numeral(200)>>,
      <<Word("go"), Word("wtime"), Numeral(4000), Word("btime"), Numeral(5024),
        Word("winc"), Numeral(0), Word("binc"), Numeral(7)>>,
      <<Word("go"), Word("depth"), Numeral(3), Word("wtime"), Numeral(30000),
        Word("btime"), Numeral(55000), Word("winc"), Numeral(100), Word("binc"), Numeral(200)>>,
      <<Word("go"), Word("wtime"), Numeral(30000), Word("btime"), Numeral(55000),
        Word("winc"), Numeral(100), Word("binc"), Numeral(200), Word("depth"), Numeral(3)>>,
      <<Word("go"), Word("btime"), Numeral(55000), Word("wtime"), Numeral(30000)>>,
      <<Word("go"), Word("wtime"), Numeral(30000), Word("btime"), Numeral(55000),
        Word("depth"), Numeral(3)>>,
      <<Word("go"), Word("depth"), Numeral(200)>> }

\* handle_go_command after a position command, the command line noted
GoCommand(parts) ==
    /\ board \in GoBoards
    /\ UciGo(parts)
    /\ clast' = [op |-> "go", parts |-> parts]
    /\ UNCHANGED <<chess, plies, hist, evaluator, cprev, cops, clog>>

GoNext ==
    \/ \E b \in GoBoards : UciPosition(b) /\ UNCHANGED <<mvars, cvars>>
    \/ \E parts \in ClockCommands : GoCommand(parts)
    \/ IterHead /\ UNCHANGED <<mvars, cvars>>
    \/ NegamaxEnter /\ UNCHANGED <<mvars, cvars>>

SpecGo == Init /\ [][GoNext]_vars

ENext ==
    \/ \E b \in EvalBoards : EvPosition(b) /\ UNCHANGED <<svars, kvars>>
    \/ EvEvaluate /\ UNCHANGED <<svars, kvars>>

SpecEval == Init /\ [][ENext]_vars


(***************************************************************************)
(* C9: Killer FIFO.  Storing three pairwise distinct moves A, B, C in that *)
(* order at one valid ply of any reachable table leaves get_killers(ply) = *)
(* [C, B] with A no longer a killer; and every store that changed the      *)
(* table left the stored move in the primary slot and the previous primary *)
(* in the secondary slot.                                                  *)
(***************************************************************************)
C9_KillerFifo ==
    /\ \A ply \in { p \in TestPlies : is_valid_ply(p) } :
       \A A \in TestMoves, B \in TestMoves, C \in TestMoves :
          (A # B /\ B # C /\ A # C) =>
             LET t == KillerMoves_store(
                          KillerMoves_store(
                              KillerMoves_store(killer_moves, A, ply), B, ply), C, ply)
             IN /\ get_killers(t, ply) = <<Some(C), Some(B)>>
                /\ ~is_killer(t, A, ply)
    /\ (klast.op = "store" /\ killer_moves # kprev) =>
          /\ get_killers(killer_moves, klast.ply)[1] = Some(klast.mv)
          /\ get_killers(killer_moves, klast.ply)[2] = get_killers(kprev, klast.ply)[1]

\* Three distinct moves were stored in a row at ply 0: the table holds the
\* last two and the store before shifted the first one into the second slot.
C9_Witness ==
    /\ klast.op = "store" /\ klast.ply = 0
    /\ killer_moves[0] = <<Some(create_test_move(10, 18)), Some(create_test_move(9, 17))>>
    /\ kprev[0] = <<Some(create_test_move(9, 17)), Some(create_test_move(8, 16))>>

(***************************************************************************)
(* C10: store(mv, ply) leaves the whole table unchanged when mv is already *)
(* the primary killer at ply, so storing a move a second time in a row     *)
(* changes nothing more than storing it once.                              *)
(***************************************************************************)
C10_StoreIdempotent ==
    /\ (klast.op = "store" /\ is_valid_ply(klast.ply) /\ kprev[klast.ply][1] = Some(klast.mv))
          => killer_moves = kprev
    /\ \A mv \in TestMoves, ply \in TestPlies :
          KillerMoves_store(KillerMoves_store(killer_moves, mv, ply), mv, ply)
             = KillerMoves_store(killer_moves, mv, ply)

\* A store of the move that already was the primary killer, with another
\* move in the secondary slot, has happened.
C10_Witness ==
    /\ klast.op = "store" /\ klast.ply = 0
    /\ kprev[0][1] = Some(klast.mv)
    /\ kprev[0][2] # None /\ kprev[0][2] # Some(klast.mv)

(***************************************************************************)
(* The rules of chess, stated piece by piece and apart from the generator: *)
(* what a piece attacks, the moves the rules allow, and the legal ones     *)
(* among them, after which the mover's king is not attacked.               *)
(***************************************************************************)
RuleBetween(s, t) ==
    LET df == file_of(t) - file_of(s)
        dr == rank_of(t) - rank_of(s)
        n == max(Abs(df), Abs(dr))
    IN { s + k * (Sign(dr) * 8 + Sign(df)) : k \in 1 .. n - 1 }

RuleAttacks(pieces, s, t) ==
    LET p == pieces[s]
        df == file_of(t) - file_of(s)
        dr == rank_of(t) - rank_of(s)
        diagonal == Abs(df) = Abs(dr) /\ df # 0
        straight == (df = 0) # (dr = 0)
        clear == \A u \in RuleBetween(s, t) : pieces[u] = None
    IN CASE p[2] = "Pawn" -> Abs(df) = 1 /\ dr = (IF p[1] = "White" THEN 1 ELSE -1)
         [] p[2] = "Knight" -> (Abs(df) = 1 /\ Abs(dr) = 2) \/ (Abs(df) = 2 /\ Abs(dr) = 1)
         [] p[2] = "King" -> s # t /\ Abs(df) <= 1 /\ Abs(dr) <= 1
         [] p[2] = "Bishop" -> diagonal /\ clear
         [] p[2] = "Rook" -> straight /\ clear
         [] p[2] = "Queen" -> (diagonal \/ straight) /\ clear

RuleAttacked(pieces, t, by) ==
    \E s \in Squares : pieces[s] # None /\ pieces[s][1] = by /\ RuleAttacks(pieces, s, t)

RuleInCheck(pieces, color) ==
    \E k \in Squares : pieces[k] = PieceOn(color, "King")
                       /\ RuleAttacked(pieces, k, opposite(color))

RulePieceMoves(b) ==
    LET color == b.active_color
        P == b.pieces
    IN { Move_new(st[1], st[2], P[st[1]][2],
                  IF P[st[2]] = None THEN "Quiet" ELSE "Capture") :
           st \in { x \in Squares \X Squares :
                      /\ P[x[1]] # None /\ P[x[1]][1] = color /\ P[x[1]][2] # "Pawn"
                      /\ RuleAttacks(P, x[1], x[2])
                      /\ (P[x[2]] = None \/ P[x[2]][1] # color) } }

RulePawnMoves(b) ==
    LET color == b.active_color
        P == b.pieces
        fwd == IF color = "White" THEN 8 ELSE -8
        start_rank == IF color = "White" THEN 1 ELSE 6
        last_rank == IF color = "White" THEN 7 ELSE 0
        kind(s, t) ==
            IF t = s + fwd /\ P[t] = None THEN "Quiet"
            ELSE IF rank_of(s) = start_rank /\ t = s + 2 * fwd
                    /\ P[s + fwd] = None /\ P[t] = None THEN "Quiet"
            ELSE IF RuleAttacks(P, s, t) /\ P[t] # None /\ P[t][1] # color THEN "Capture"
            ELSE IF RuleAttacks(P, s, t) /\ P[t] = None /\ b.en_passant_target = Some(t)
                    /\ P[t - fwd] = PieceOn(opposite(color), "Pawn") THEN "EnPassant"
            ELSE "None"
        steps == { x \in Squares \X Squares :
                     P[x[1]] = PieceOn(color, "Pawn") /\ kind(x[1], x[2]) # "None" }
    IN { Move_new(x[1], x[2], "Pawn", kind(x[1], x[2])) :
           x \in { y \in steps : rank_of(y[2]) # last_rank } }
       \cup { Move_new(xp[1][1], xp[1][2], xp[2], "Promotion") :
                xp \in { y \in steps : rank_of(y[2]) = last_rank }
                       \X {"Knight", "Bishop", "Rook", "Queen"} }

RuleCastles(b) ==
    LET color == b.active_color
        P == b.pieces
        enemy == opposite(color)
        home == IF color = "White" THEN 0 ELSE 56
        rights == castling_ability(b, color)
        ready == P[home + 4] = PieceOn(color, "King") /\ ~RuleAttacked(P, home + 4, enemy)
        king_side == /\ ready /\ rights[1] /\ P[home + 7] = PieceOn(color, "Rook")
                     /\ \A s \in {home + 5, home + 6} :
                           P[s] = None /\ ~RuleAttacked(P, s, enemy)
        queen_side == /\ ready /\ rights[2] /\ P[home] = PieceOn(color, "Rook")
                      /\ \A s \in {home + 1, home + 2, home + 3} : P[s] = None
                      /\ \A s \in {home + 2, home + 3} : ~RuleAttacked(P, s, enemy)
    IN (IF king_side THEN {Move_new(home + 4, home + 6, "King", "Castle")} ELSE {})
       \cup (IF queen_side THEN {Move_new(home + 4, home + 2, "King", "Castle")} ELSE {})

RuleLegalMoves(b) ==
    { mv \in RulePieceMoves(b) \cup RulePawnMoves(b) \cup RuleCastles(b) :
        ~RuleInCheck(Board_clone_with_move(b, mv).pieces, b.active_color) }

\* a move as the rules name it: from, to, and the piece a pawn promotes to
MoveKey(mv) ==
    <<mv.from, mv.to, IF mv.move_type = "Promotion" THEN mv.piece_type ELSE "">>

\* the leaves of the tree of legal moves of the given depth
RECURSIVE RulePerft(_, _)
RECURSIVE RulePerftSum(_, _, _)
RulePerftSum(b, moves, depth) ==
    IF moves = {} THEN 0
    ELSE LET mv == CHOOSE m \in moves : TRUE
         IN RulePerft(Board_clone_with_move(b, mv), depth - 1)
            + RulePerftSum(b, moves \ {mv}, depth)

RulePerft(b, depth) ==
    IF depth = 0 THEN 1 ELSE RulePerftSum(b, RuleLegalMoves(b), depth)

(***************************************************************************)
(* C5: generate_moves returns exactly the strictly legal moves of the      *)
(* position, every move the rules allow after which the mover's own king   *)
(* is not attacked and no other move, so run_perft(board, d) is the number *)
(* of leaves of the tree of legal moves of depth d, with perft(0) = 1, and *)
(* 20 and 400 at depths 1 and 2 from the start position.                   *)
(***************************************************************************)
C5_ExactlyLegalMoves ==
    /\ LET moves == MoveGenerator_generate_moves(chess)
           legal == RuleLegalMoves(chess)
       IN /\ { MoveKey(moves[i]) : i \in 1 .. Len(moves) } = { MoveKey(mv) : mv \in legal }
          /\ Len(moves) = Cardinality(legal)
    /\ plies = 0 => \A d \in 0 .. PerftDepth : run_perft(chess, d) = RulePerft(chess, d)
    /\ chess = StartPosition =>
          run_perft(chess, 0) = 1 /\ run_perft(chess, 1) = 20 /\ run_perft(chess, 2) = 400

(***************************************************************************)
(* C6: on every board the list generate_moves returns holds no move twice, *)
(* and the from square of every returned move holds a piece of the side to *)
(* move: of the move's stated kind when the move is not a promotion, a     *)
(* pawn when it is one, the stated kind then being the kind promoted to.   *)
(***************************************************************************)
C6_OwnPieceOnFrom ==
    LET moves == MoveGenerator_generate_moves(chess)
    IN /\ \A i \in 1 .. Len(moves), j \in 1 .. Len(moves) : i # j => moves[i] # moves[j]
       /\ \A i \in 1 .. Len(moves) :
             IF moves[i].move_type = "Promotion"
             THEN /\ chess.pieces[moves[i].from] = PieceOn(chess.active_color, "Pawn")
                  /\ moves[i].piece_type \in {"Knight", "Bishop", "Rook", "Queen"}
             ELSE chess.pieces[moves[i].from]
                     = PieceOn(chess.active_color, moves[i].piece_type)

\* A move has been played and the generator returns, for the board reached,
\* promotions next to moves of the king.
C6_Witness ==
    /\ plies > 0
    /\ LET moves == MoveGenerator_generate_moves(chess)
       IN /\ \E i \in 1 .. Len(moves) : moves[i].move_type = "Promotion"
          /\ \E i \in 1 .. Len(moves) : moves[i].piece_type = "King"

\* C6 as stated: no move twice, and the from square of every returned move,
\* promotions included, holds a piece of the side to move of the move's
\* stated kind.
C6_StatedKindOnFrom ==
    LET moves == MoveGenerator_generate_moves(chess)
    IN /\ \A i \in 1 .. Len(moves), j \in 1 .. Len(moves) : i # j => moves[i] # moves[j]
       /\ \A i \in 1 .. Len(moves) :
             chess.pieces[moves[i].from] = PieceOn(chess.active_color, moves[i].piece_type)

\* the iterations of the running call the timer had not expired in
CompletedIterations == SelectSeq(iters, LAMBDA r : ~r.expired)

(***************************************************************************)
(* C1: the (score, best_move) find_best_move holds, and returns, is that   *)
(* of the deepest iteration that completed before the timer expired, and   *)
(* the initial (NEGATIVE_INFINITY, absent) when there is none: an          *)
(* iteration during which the timer expired never changes it.              *)
(***************************************************************************)
C1_DeepestCompleted ==
    IF CompletedIterations = << >>
    THEN fbm.best_score = NEGATIVE_INFINITY /\ fbm.best_move = None
    ELSE LET last == CompletedIterations[Len(CompletedIterations)]
         IN /\ \A i \in 1 .. Len(CompletedIterations) :
                  CompletedIterations[i].depth <= last.depth
            /\ fbm.best_score = last.score
            /\ fbm.best_move = last.best_move

\* find_best_move has returned after an iteration the timer expired in, the
\* partial result of which differs from the result it returned.
C1_Witness ==
    /\ fbm.pc = "done"
    /\ Len(iters) >= 2
    /\ iters[Len(iters)].expired
    /\ ~iters[Len(iters) - 1].expired
    /\ iters[Len(iters)].score # iters[Len(iters) - 1].score
    /\ fbm.best_score = iters[Len(iters) - 1].score

(***************************************************************************)
(* C2: when find_best_move has returned from a call with max_depth >= 1    *)
(* and no time limit on a root position that has a legal move, the         *)
(* best_move it returned is present and is one of the root's legal moves.  *)
(***************************************************************************)
C2_BestMovePresent ==
    (/\ fbm.pc = "done" /\ fbm.max_depth >= 1 /\ timer.time_limit = None
     /\ generate_moves(fbm.board) # << >>)
        => /\ fbm.best_move # None
           /\ \E i \in 1 .. Len(generate_moves(fbm.board)) :
                 generate_moves(fbm.board)[i] = fbm.best_move[1]

\* the move leaves the opponent in check without a legal move
DeliversCheckmate(b, mv) ==
    /\ is_in_check(clone_with_move(b, mv))
    /\ generate_moves(clone_with_move(b, mv)) = << >>

(***************************************************************************)
(* C3: when find_best_move has returned from a call with max_depth >= 1    *)
(* and no time limit on a root position one of whose legal moves delivers  *)
(* checkmate, the move it returned delivers checkmate.                     *)
(***************************************************************************)
C3_MateFound ==
    (/\ fbm.pc = "done" /\ fbm.max_depth >= 1 /\ timer.time_limit = None
     /\ \E i \in 1 .. Len(generate_moves(fbm.board)) :
           DeliversCheckmate(fbm.board, generate_moves(fbm.board)[i]))
        => /\ fbm.best_move # None
           /\ DeliversCheckmate(fbm.board, fbm.best_move[1])

(***************************************************************************)
(* C4: of two checkmates handle_terminal_position scores within one        *)
(* iteration, the one delivered fewer plies from the root receives, from   *)
(* the mating side's point of view, the strictly higher score.             *)
(***************************************************************************)
C4_CloserMateScoresHigher ==
    \A m1 \in mates, m2 \in mates :
        (m1.iter = m2.iter /\ m1.ply < m2.ply) => -(m1.score) > -(m2.score)

(***************************************************************************)
(* C7: when a go command has printed its bestmove line for a position that *)
(* has a legal move, the line names one of that position's legal moves,    *)
(* and so is not `bestmove 0000`.                                          *)
(***************************************************************************)
C7_BestmoveLegal ==
    (/\ fbm.pc = "done" /\ fbm.caller = "uci" /\ out # << >>
     /\ generate_moves(fbm.board) # << >>)
        => \E i \in 1 .. Len(generate_moves(fbm.board)) :
              out[Len(out)] = "bestmove " \o to_algebraic(generate_moves(fbm.board)[i])

(***************************************************************************)
(* C8: find_best_move has printed exactly one info line for each iteration *)
(* it completed and none for an iteration the timer interrupted; the       *)
(* lines' depths are 1, 2, ..., k without gaps, k <= max_depth; and the    *)
(* (score, best_move) it returns are those of the last line printed.       *)
(***************************************************************************)
C8_OneInfoLinePerIteration ==
    /\ Len(info) = Len(CompletedIterations)
    /\ Len(info) <= fbm.max_depth
    /\ \A i \in 1 .. Len(info) :
          /\ info[i].depth = i
          /\ info[i].depth = CompletedIterations[i].depth
          /\ info[i].score = CompletedIterations[i].score
          /\ info[i].pv = CompletedIterations[i].best_move
    /\ \A i \in 1 .. Len(iters) :
          iters[i].expired => \A j \in 1 .. Len(info) : info[j].depth # iters[i].depth
    /\ (fbm.pc = "done" /\ info # << >>) =>
          /\ fbm.best_score = info[Len(info)].score
          /\ fbm.best_move = info[Len(info)].pv

\* find_best_move has returned after two completed iterations and a third
\* one the timer interrupted: two lines were printed.
C8_Witness ==
    /\ fbm.pc = "done"
    /\ Len(iters) = 3
    /\ iters[3].expired
    /\ Len(info) = 2
    /\ info[2].depth = 2

(***************************************************************************)
(* C11: after any sequence of store, clear and clear_ply operations the    *)
(* two killer slots of a ply never hold the same move.                     *)
(***************************************************************************)
C11_NoDuplicateKillers ==
    \A p \in 0 .. MAX_DEPTH - 1 :
        killer_moves[p][1] # None => killer_moves[p][1] # killer_moves[p][2]

\* The move that was the secondary killer of a ply has been stored there
\* again: it is now the primary killer and the former primary the secondary.
C11_Witness ==
    /\ klast.op = "store"
    /\ is_valid_ply(klast.ply)
    /\ kprev[klast.ply][1] # None
    /\ kprev[klast.ply][2] = Some(klast.mv)
    /\ killer_moves[klast.ply] = <<Some(klast.mv), kprev[klast.ply][1]>>

(***************************************************************************)
(* C12: at every ply >= 64 store and clear_ply change nothing, is_killer   *)
(* is false for every move and get_killers returns the empty slice; a move *)
(* stored at ply 63 is reported as a killer there.                         *)
(***************************************************************************)
C12_InvalidPlyIgnored ==
    /\ (klast.op \in {"store", "clear_ply"} /\ klast.ply >= MAX_DEPTH)
          => killer_moves = kprev
    /\ \A ply \in MAX_DEPTH .. 255 :
          /\ get_killers(killer_moves, ply) = << >>
          /\ \A mv \in TestMoves : ~is_killer(killer_moves, mv, ply)
    /\ (klast.op = "store" /\ klast.ply = MAX_DEPTH - 1)
          => /\ is_killer(killer_moves, klast.mv, MAX_DEPTH - 1)
             /\ get_killers(killer_moves, MAX_DEPTH - 1)[1] = Some(klast.mv)

\* A store at ply 64 has been applied to a table that holds killers at
\* ply 63.
C12_Witness ==
    /\ klast.op = "store"
    /\ klast.ply = MAX_DEPTH
    /\ kprev[MAX_DEPTH - 1][1] # None
    /\ killer_moves = kprev

(***************************************************************************)
(* C13: store(mv, p) and clear_ply(p) change only the slots of ply p: at   *)
(* every other ply q, is_killer(m, q) and get_killers(q) are what they     *)
(* were before the operation.                                              *)
(***************************************************************************)
C13_OtherPliesUnchanged ==
    klast.op \in {"store", "clear_ply"} =>
        \A q \in 0 .. 255 :
            q # klast.ply =>
                /\ get_killers(killer_moves, q) = get_killers(kprev, q)
                /\ \A m \in TestMoves :
                      is_killer(killer_moves, m, q) = is_killer(kprev, m, q)

\* clear_ply has emptied the slots of ply 0 while ply 63 holds two killers.
C13_Witness ==
    /\ klast.op = "clear_ply"
    /\ klast.ply = 0
    /\ kprev[0][1] # None
    /\ killer_moves[0][1] = None
    /\ killer_moves[MAX_DEPTH - 1][2] # None

(***************************************************************************)
(* C14: every entry of a new HistoryTable is 0; record_cutoff(mv, depth)   *)
(* adds depth squared to scores[mv.from][mv.to], the sum held at i32::MAX  *)
(* when it would pass it, and changes no other entry.                      *)
(***************************************************************************)
C14_RecordCutoffSaturates ==
    /\ clast.op = "new" => \A from \in 0 .. 63, to \in 0 .. 63 : hist[from][to] = 0
    /\ clast.op = "record_cutoff" =>
          LET old == cprev[clast.mv.from][clast.mv.to]
              square == clast.depth * clast.depth
          IN /\ hist[clast.mv.from][clast.mv.to]
                   = IF I32_MAX - old >= square THEN old + square ELSE I32_MAX
             /\ \A from \in 0 .. 63, to \in 0 .. 63 :
                   <<from, to>> # <<clast.mv.from, clast.mv.to>>
                      => hist[from][to] = cprev[from][to]

\* record_cutoff has been called on an entry so close to i32::MAX that the
\* sum passes it: the entry now holds i32::MAX.
C14_Witness ==
    /\ clast.op = "record_cutoff"
    /\ cprev[clast.mv.from][clast.mv.to] < I32_MAX
    /\ I32_MAX - cprev[clast.mv.from][clast.mv.to] < clast.depth * clast.depth
    /\ hist[clast.mv.from][clast.mv.to] = I32_MAX

\* the stores, first to last, that went into the slot of key k
StoresIntoSlotOf(k) ==
    SelectSeq(clog, LAMBDA o : o.op = "store" /\ o.key % TableSlots = k % TableSlots)

(***************************************************************************)
(* C15: retrieve(k) returns the score, best move, depth and bound of the   *)
(* most recent store into slot k mod capacity when that store's key is k,  *)
(* and no entry when the slot is empty or its last store had another key.  *)
(***************************************************************************)
C15_RetrieveLastStore ==
    \A b \in Boards :
        LET k == Zobrist_hash(b)
            stores == StoresIntoSlotOf(k)
            entry == TranspositionTable_retrieve(tt, k)
        IN IF stores = << >> \/ stores[Len(stores)].key # k
           THEN entry = None
           ELSE /\ entry # None
                /\ entry[1].eval = stores[Len(stores)].score
                /\ entry[1].best_move = stores[Len(stores)].best_move
                /\ entry[1].depth = stores[Len(stores)].depth
                /\ entry[1].bounds = stores[Len(stores)].bound

\* An entry stored for L has been replaced by a store for another position
\* of the same slot: L is no longer retrieved, the other position is, with
\* a bound that is not Exact.
C15_Witness ==
    /\ Len(clog) = 2
    /\ clog[1].op = "store" /\ clog[1].key = Zobrist_hash("L")
    /\ clog[2].op = "store" /\ clog[2].key # Zobrist_hash("L")
    /\ clog[2].key % TableSlots = clog[1].key % TableSlots
    /\ clog[2].bound = "Lower"
    /\ TranspositionTable_retrieve(tt, Zobrist_hash("L")) = None
    /\ TranspositionTable_retrieve(tt, clog[2].key) # None

\* the hashes on the stack after the pushes and pops of the log
RECURSIVE StackAfter(_)
StackAfter(log) ==
    IF log = << >> THEN << >>
    ELSE LET before == StackAfter(SubSeq(log, 1, Len(log) - 1))
             o == log[Len(log)]
         IN IF o.op = "push" THEN Append(before, o.hash)
            ELSE IF before = << >> THEN before
            ELSE SubSeq(before, 1, Len(before) - 1)

(***************************************************************************)
(* C16: is_repetition(h) is true iff h occurs at least twice among the     *)
(* entries on the stack; after three pushes of one position                *)
(* is_draw_by_repetition is true for it.                                   *)
(***************************************************************************)
C16_RepetitionIffTwice ==
    /\ \A b \in Boards :
          LET on_stack == StackAfter(clog)
              n == Cardinality({ i \in 1 .. Len(on_stack) : on_stack[i] = Zobrist_hash(b) })
          IN /\ is_repetition(history, Zobrist_hash(b)) <=> n >= 2
             /\ is_draw_by_repetition(history, b) <=> n >= 2
    /\ \A b \in HistoryBoards :
          (/\ Len(clog) = 3
           /\ \A i \in 1 .. 3 : clog[i].op = "push" /\ clog[i].hash = Zobrist_hash(b))
             => is_draw_by_repetition(history, b)

\* One position has been pushed three times, as the repetition test does.
C16_Witness ==
    /\ Len(clog) = 3
    /\ \A i \in 1 .. 3 : clog[i].op = "push" /\ clog[i].hash = Zobrist_hash("Q1")
    /\ is_draw_by_repetition(history, "Q1")
    /\ ~is_draw_by_repetition(history, "Q2")

\* the board mirrored vertically: every piece on square XOR 56 with its
\* colour swapped, the other side to move
Mirror(b) ==
    [pieces |-> [sq \in Squares |->
                    LET from == (7 - sq \div 8) * 8 + (sq % 8)
                    IN IF b.pieces[from] = None THEN None
                       ELSE PieceOn(opposite(b.pieces[from][1]), b.pieces[from][2])],
     active_color |-> opposite(b.active_color),
     castling |-> [wk |-> b.castling.bk, wq |-> b.castling.bq,
                   bk |-> b.castling.wk, bq |-> b.castling.wq],
     en_passant_target |-> None]

(***************************************************************************)
(* C17: for every board, the score evaluate returns for the board mirrored *)
(* vertically with the colours swapped and the other side to move has the  *)
(* absolute magnitude of the score it returns for the board itself.        *)
(***************************************************************************)
C17_MirrorSymmetry ==
    /\ Abs(Evaluator_evaluate(evaluator, chess).score)
          = Abs(Evaluator_evaluate(evaluator, Mirror(chess)).score)
    /\ clast.op = "evaluate" =>
          Abs(clast.score) = Abs(Evaluator_evaluate(evaluator, Mirror(clast.board)).score)

\* evaluate has returned a score other than 0 for a board that its mirror
\* image differs from in more than the colours.
C17_Witness ==
    /\ clast.op = "evaluate"
    /\ clast.board = PerftPosition2
    /\ clast.score # 0
    /\ \E sq \in Squares :
          (clast.board.pieces[sq] = None) # (Mirror(clast.board).pieces[sq] = None)

\* the table value of the piece on a square of the board, from the opening
\* tables (tables = 1) or the endgame tables (tables = 2), counted for the
\* side to move and against its opponent
TableValue(b, sq, tables) ==
    IF b.pieces[sq] = None THEN 0
    ELSE LET color == b.pieces[sq][1]
             kind == b.pieces[sq][2]
             index == IF color = "White" THEN (7 - sq \div 8) * 8 + (sq % 8) ELSE sq
             value == IF tables = 1 THEN opening_table(kind)[index + 1]
                      ELSE endgame_table(kind)[index + 1]
         IN IF color = b.active_color THEN value ELSE -value

RECURSIVE TableSum(_, _, _)
TableSum(b, sq, tables) ==
    IF sq > 63 THEN 0 ELSE TableValue(b, sq, tables) + TableSum(b, sq + 1, tables)

\* knights and bishops count 1, rooks 2, queens 4
RECURSIVE PhaseSum(_, _)
PhaseSum(b, sq) ==
    IF sq > 63 THEN 0
    ELSE (IF b.pieces[sq] = None THEN 0
          ELSE CASE b.pieces[sq][2] \in {"Knight", "Bishop"} -> 1
                 [] b.pieces[sq][2] = "Rook" -> 2
                 [] b.pieces[sq][2] = "Queen" -> 4
                 [] OTHER -> 0)
         + PhaseSum(b, sq + 1)

\* (o * p + e * (24 - p)) / 24, the quotient truncated toward zero
TaperedScore(b) ==
    LET p == IF PhaseSum(b, 0) > 24 THEN 24 ELSE PhaseSum(b, 0)
        n == TableSum(b, 0, 1) * p + TableSum(b, 0, 2) * (24 - p)
    IN IF n >= 0 THEN n \div 24 ELSE -((-n) \div 24)

(***************************************************************************)
(* C18: evaluate(board) returns (o * p + e * (24 - p)) / 24 in integer     *)
(* division, p the phase count of all knights, bishops (1), rooks (2) and  *)
(* queens (4) held at 24, o and e the side to move's minus the opponent's  *)
(* opening and endgame table sums; earlier calls of evaluate do not change *)
(* what it returns.                                                        *)
(***************************************************************************)
C18_TaperedScore ==
    /\ clast.op = "evaluate" => clast.score = TaperedScore(clast.board)
    /\ \A i \in 1 .. Len(clog) : clog[i].score = TaperedScore(clog[i].board)
    /\ \A i \in 1 .. Len(clog), j \in 1 .. Len(clog) :
          clog[i].board = clog[j].board => clog[i].score = clog[j].score

\* evaluate has been called on the board of many queens, whose phase count
\* passes 24, and then on another board.
C18_Witness ==
    /\ Len(clog) = 2
    /\ clog[1].board = QueensPosition
    /\ PhaseSum(clog[1].board, 0) > 24
    /\ clog[2].board # QueensPosition
    /\ PhaseSum(clog[2].board, 0) < 24
    /\ clog[2].score = TaperedScore(clog[2].board)

\* the time since the timer's start, when it has one
Elapsed(t, now) == now - t.start_time[1]

(***************************************************************************)
(* C19: should_stop() is false whenever the timer has no time limit or was *)
(* never started; with both it is true exactly when the time elapsed since *)
(* the start is at least the limit; so once true it stays true until the   *)
(* next start or reset.                                                    *)
(***************************************************************************)
C19_ShouldStop ==
    /\ (timer.time_limit = None \/ timer.start_time = None) => ~should_stop(timer, clock)
    /\ (timer.time_limit # None /\ timer.start_time # None) =>
          (should_stop(timer, clock) <=> Elapsed(timer, clock) >= timer.time_limit[1])
    /\ (clast.op \in {"tick", "increment_nodes", "add_nodes"} /\ should_stop(cprev, clast.at)) =>
          should_stop(timer, clock)

\* the elapsed time has just reached the limit of a started timer that was
\* still under it a millisecond before.
C19_Witness ==
    /\ clast.op = "tick"
    /\ timer.time_limit # None
    /\ timer.time_limit[1] > 0
    /\ Elapsed(timer, clock) = timer.time_limit[1]
    /\ ~should_stop(cprev, clast.at)
    /\ should_stop(timer, clock)

(***************************************************************************)
(* C20: start(limit) sets the node counter to 0 and replaces the time      *)
(* limit; reset() sets the node counter to 0 and restarts the clock and    *)
(* leaves the time limit as it was; increment_nodes and add_nodes change   *)
(* only the node counter, by 1 and by count.                               *)
(***************************************************************************)
C20_TimerFrame ==
    /\ clast.op = "start" =>
          /\ timer.nodes_searched = 0
          /\ timer.time_limit = clast.time_limit
          /\ timer.start_time = Some(clast.at)
    /\ clast.op = "reset" =>
          /\ timer.nodes_searched = 0
          /\ timer.start_time = Some(clast.at)
          /\ timer.time_limit = cprev.time_limit
    /\ clast.op = "increment_nodes" =>
          /\ timer.nodes_searched = cprev.nodes_searched + 1
          /\ timer.start_time = cprev.start_time
          /\ timer.time_limit = cprev.time_limit
    /\ clast.op = "add_nodes" =>
          /\ timer.nodes_searched = cprev.nodes_searched + clast.count
          /\ timer.start_time = cprev.start_time
          /\ timer.time_limit = cprev.time_limit

\* reset has been called, a millisecond or more after the start, on a timer
\* with a time limit and nodes counted.
C20_Witness ==
    /\ clast.op = "reset"
    /\ cprev.time_limit # None
    /\ cprev.nodes_searched > 0
    /\ cprev.start_time # None
    /\ cprev.start_time # timer.start_time

\* the window the k-th activation of the stack was called with: the root's
\* is (NEGATIVE_INFINITY, INFINITY), a callee's is (-beta, -alpha) of its caller
EnteredAlpha(k) == IF k = 1 THEN NEGATIVE_INFINITY ELSE -(stack[k - 1].beta)

EnteredBeta(k) == IF k = 1 THEN INFINITY ELSE -(stack[k - 1].alpha)

\* negamax has come to the head of its move loop for the first time, the
\* table holding a matching entry deep enough for the node
AtLoopWithEntry(bounds) ==
    /\ stack # << >>
    /\ Top.fn = "negamax" /\ Top.pc = "loop" /\ Top.i = 1
    /\ LET entry == TranspositionTable_retrieve(tt, Zobrist_hash(Top.board))
       IN /\ entry # None
          /\ entry[1].depth >= Top.depth
          /\ entry[1].bounds = bounds

(***************************************************************************)
(* C21: when negamax comes to its move loop with a matching table entry of *)
(* entry.depth >= depth that did not make it return, the loop runs with    *)
(* the narrowed window: alpha = max(alpha, entry.score) for a Lower entry  *)
(* and beta = min(beta, entry.score) for an Upper entry.                   *)
(***************************************************************************)
C21_NarrowedWindow ==
    LET entry == TranspositionTable_retrieve(tt, Zobrist_hash(Top.board))
    IN /\ AtLoopWithEntry("Lower") =>
             Top.alpha = max(EnteredAlpha(Len(stack)), entry[1].eval)
       /\ AtLoopWithEntry("Upper") =>
             Top.beta = min(EnteredBeta(Len(stack)), entry[1].eval)

\* the result the activation on top of the stack hands back in the step that
\* pops it: to its caller below the root, to find_best_move at the root
Returned ==
    IF Len(stack) > 1 THEN ret'[1]
    ELSE SearchResult_new(iters'[Len(iters')].score, iters'[Len(iters')].best_move)

\* negamax is called and runs to its first move, to quiescence or to its return
NegamaxEnters ==
    /\ stack # << >>
    /\ Top.fn = "negamax" /\ Top.pc = "enter"
    /\ stack' # stack

IsAmong(mv, moves) == \E i \in 1 .. Len(moves) : moves[i] = mv

(***************************************************************************)
(* C22: a table entry with entry.depth < depth never supplies the node's   *)
(* return value (the node returns at once only when it has no legal move,  *)
(* with the terminal score) and its best_move, when it is one of the       *)
(* node's moves, is the move ordered first; an entry with entry.depth >=   *)
(* depth and bound Exact is returned at once, no move generated or         *)
(* searched.                                                               *)
(***************************************************************************)
C22_ShallowEntryOrdersOnly ==
    [][(NegamaxEnters /\ ~(Top.ply > 0 /\ is_draw_by_repetition(history, Top.board))) =>
         LET f == Top
             entry == TranspositionTable_retrieve(tt, Zobrist_hash(f.board))
         IN /\ (entry # None /\ entry[1].depth < f.depth) =>
                  IF generate_moves(f.board) = << >>
                  THEN /\ Len(stack') = Len(stack) - 1
                       /\ Returned = handle_terminal_position(f.board, f.depth)
                  ELSE /\ Len(stack') = Len(stack)
                       /\ stack'[Len(stack)].pc = "loop"
                       /\ (entry[1].best_move # None
                             /\ IsAmong(entry[1].best_move[1], generate_moves(f.board))) =>
                               stack'[Len(stack)].moves[1] = entry[1].best_move[1]
            /\ (entry # None /\ entry[1].depth >= f.depth /\ entry[1].bounds = "Exact") =>
                  /\ Len(stack') = Len(stack) - 1
                  /\ Returned = SearchResult_new(entry[1].eval, entry[1].best_move)
                  /\ timer'.nodes_searched = timer.nodes_searched + 1
                  /\ tt' = IF Len(stack) > 1 \/ should_stop(timer, clock) THEN tt
                           ELSE cache_search_result(tt, f.board, Returned, fbm.current_depth)
       ]_vars

\* negamax stands at the first move of its loop with a table entry too
\* shallow for the node, whose best_move, not the first move generated, has
\* been ordered first.
C22_Witness ==
    /\ stack # << >>
    /\ Top.fn = "negamax" /\ Top.pc = "loop" /\ Top.i = 1
    /\ LET entry == TranspositionTable_retrieve(tt, Zobrist_hash(Top.board))
       IN /\ entry # None
          /\ entry[1].depth < Top.depth
          /\ entry[1].best_move # None
          /\ Top.moves[1] = entry[1].best_move[1]
          /\ generate_moves(Top.board)[1] # entry[1].best_move[1]

\* negamax at depth >= 1 leaves its move loop and returns
NegamaxFinishes ==
    /\ stack # << >>
    /\ Top.fn = "negamax" /\ Top.pc \in {"loop", "wait"} /\ Top.depth >= 1
    /\ Len(stack') = Len(stack) - 1

\* the bound of a score against a window
BoundAgainst(score, alpha, beta) ==
    CASE score <= alpha -> "Upper"
      [] score > alpha /\ score >= beta -> "Lower"
      [] OTHER -> "Exact"

(***************************************************************************)
(* C23: when negamax stores its entry, the entry is under the node's       *)
(* Zobrist hash and holds the node's remaining depth, its best_score, its  *)
(* best_move and the bound of best_score against the window the node was   *)
(* called with: Upper when best_score <= alpha, Lower when best_score >=   *)
(* beta, else Exact.  No other slot of the table changes.                  *)
(***************************************************************************)
C23_StoredEntryClassified ==
    [][NegamaxFinishes =>
         LET f == Top
             k == Len(stack)
             key == Zobrist_hash(f.board)
             stored == [key |-> key, eval |-> Returned.score, best_move |-> Returned.best_move,
                        depth |-> f.depth,
                        bounds |-> BoundAgainst(Returned.score, EnteredAlpha(k), EnteredBeta(k))]
             cached == [stored EXCEPT !.depth = fbm.current_depth, !.bounds = "Exact"]
         IN /\ tt'[key % TableSlots] =
                  Some(IF k = 1 /\ ~should_stop(timer, clock) THEN cached ELSE stored)
            /\ \A slot \in DOMAIN tt : slot # key % TableSlots => tt'[slot] = tt[slot]
       ]_vars

\* a callee of negamax has just returned after a beta cutoff, its entry
\* stored as a Lower bound with its depth, score and move.
C23_Witness ==
    /\ Len(stack) >= 1 /\ ret # None
    /\ Top.fn = "negamax" /\ Top.pc = "wait" /\ Top.depth >= 2
    /\ LET child == clone_with_move(Top.board, Top.moves[Top.i])
           entry == TranspositionTable_retrieve(tt, Zobrist_hash(child))
       IN /\ entry # None
          /\ entry[1].bounds = "Lower"
          /\ entry[1].depth = Top.depth - 1
          /\ entry[1].eval = ret[1].score
          /\ entry[1].best_move = ret[1].best_move
          /\ ret[1].best_move # None
          /\ ret[1].score >= -(Top.alpha)

\* find_best_move stands between two iterations, the last one completed
IterationCompleted ==
    /\ fbm.pc = "iter_head"
    /\ iters # << >>
    /\ ~iters[Len(iters)].expired

(***************************************************************************)
(* C24: after every completed iteration d of find_best_move the table's    *)
(* entry for the root position's hash holds depth d, the iteration's score *)
(* and best_move, and bound Exact, whatever bound negamax stored for the   *)
(* root during the iteration.                                              *)
(***************************************************************************)
C24_RootCachedExact ==
    IterationCompleted =>
        LET done == iters[Len(iters)]
        IN TranspositionTable_retrieve(tt, Zobrist_hash(fbm.board)) =
              Some([key |-> Zobrist_hash(fbm.board), eval |-> done.score,
                    best_move |-> done.best_move, depth |-> done.depth, bounds |-> "Exact"])

\* an iteration has completed whose root score is the lower end of the root
\* window, for which negamax stored the root as an Upper bound.
C24_Witness ==
    /\ IterationCompleted
    /\ iters[Len(iters)].depth >= 2
    /\ generate_moves(fbm.board) # << >>
    /\ iters[Len(iters)].score <= NEGATIVE_INFINITY
    /\ TranspositionTable_retrieve(tt, Zobrist_hash(fbm.board))[1].bounds = "Exact"

\* the hashes of the positions on the path from the root to the node being
\* searched: one per activation of negamax on the stack
PathHashes ==
    LET path == SelectSeq(stack, LAMBDA f : f.fn = "negamax")
    IN [k \in 1 .. Len(path) |-> Zobrist_hash(path[k].board)]

\* the callee negamax has just returned from was called on a position that
\* is already on the path above it
ReturnedFromRepeatedPosition ==
    /\ stack # << >> /\ ret # None
    /\ Top.fn = "negamax" /\ Top.pc = "wait" /\ Top.depth >= 1
    /\ \E k \in 1 .. Len(stack) :
          stack[k].board = clone_with_move(Top.board, Top.moves[Top.i])

(***************************************************************************)
(* C25: during a search the position history holds the Zobrist hash of     *)
(* every position on the path from the root down to the node being         *)
(* searched, and a position that repeats along the path is scored 0.       *)
(***************************************************************************)
C25_HistoryHoldsPath ==
    /\ stack # << >> => history = PathHashes
    /\ ReturnedFromRepeatedPosition => ret[1] = SearchResult_new(0, None)

(***************************************************************************)
(* C26: search_position pushes exactly one hash, the root position's, and  *)
(* pops exactly one on every path, timer expiry included: while negamax    *)
(* runs the history is its content before the call with the root's hash on *)
(* top, and between iterations and after find_best_move has returned it is *)
(* its content before the call.                                            *)
(***************************************************************************)
C26_HistoryRestored ==
    /\ fbm.pc = "searching" =>
          history = PositionHistory_push(PositionHistory_new, Zobrist_hash(fbm.board))
    /\ fbm.pc \in {"iter_head", "done"} => history = PositionHistory_new

\* find_best_move has returned after an iteration the timer expired in.
C26_Witness ==
    /\ fbm.pc = "done"
    /\ history = PositionHistory_new
    /\ iters # << >>
    /\ iters[Len(iters)].expired
    /\ iters[Len(iters)].depth >= 2

\* negamax is called at depth >= 1 on a position without a legal move
NegamaxEntersTerminal ==
    /\ NegamaxEnters
    /\ Top.depth >= 1
    /\ generate_moves(Top.board) = << >>

\* the step returns the terminal score of the node on top of the stack and
\* negamax writes neither table for it (at the root find_best_move caches
\* the result of a completed iteration afterwards)
TerminalScored ==
    /\ Len(stack') = Len(stack) - 1
    /\ Returned = SearchResult_new(IF is_in_check(Top.board)
                                   THEN -CHECKMATE_SCORE + Top.depth ELSE 0, None)
    /\ killer_moves' = killer_moves
    /\ tt' = IF Len(stack) > 1 \/ should_stop(timer, clock) THEN tt
             ELSE TranspositionTable_store(tt, Zobrist_hash(Top.board), Returned.score,
                                           Returned.best_move, fbm.current_depth, "Exact")

(***************************************************************************)
(* C27 as stated: negamax at depth >= 1 on a position with no legal move   *)
(* returns best_move None with score -CHECKMATE_SCORE + depth when the     *)
(* side to move is in check and 0 otherwise, and writes nothing to the     *)
(* transposition table or the killer table for that node.                  *)
(***************************************************************************)
C27_TerminalAlwaysScored ==
    [][NegamaxEntersTerminal => TerminalScored]_vars

(***************************************************************************)
(* C27 amended: negamax at depth >= 1 on a position with no legal move for *)
(* which the table holds no matching entry with entry.depth >= depth       *)
(* returns best_move None with score -CHECKMATE_SCORE + depth when the     *)
(* side to move is in check and 0 otherwise, and writes nothing to the     *)
(* transposition table or the killer table for that node; with such an     *)
(* entry it returns the entry's score and best_move.                       *)
(***************************************************************************)
C27_TerminalScoredUnlessCached ==
    [][NegamaxEntersTerminal =>
         LET entry == TranspositionTable_retrieve(tt, Zobrist_hash(Top.board))
         IN IF entry = None \/ entry[1].depth < Top.depth
            THEN TerminalScored
            ELSE /\ Len(stack') = Len(stack) - 1
                 /\ Returned = SearchResult_new(entry[1].eval, entry[1].best_move)
                 /\ killer_moves' = killer_moves
       ]_vars

\* negamax has just returned from a callee entered at depth >= 1 on a
\* position in check without a legal move, with the mate score of that depth
\* and no move.
C27_Witness ==
    /\ stack # << >> /\ ret # None
    /\ Top.fn = "negamax" /\ Top.pc = "wait" /\ Top.depth >= 2
    /\ LET child == clone_with_move(Top.board, Top.moves[Top.i])
       IN /\ generate_moves(child) = << >>
          /\ is_in_check(child)
          /\ ret[1] = SearchResult_new(-CHECKMATE_SCORE + (Top.depth - 1), None)
          /\ TranspositionTable_retrieve(tt, Zobrist_hash(child)) = None

\* the window the activation of search_until_quiet on top of the stack was
\* called with: negamax passes its own, search_until_quiet (-beta, -alpha)
QuietAlpha ==
    LET caller == stack[Len(stack) - 1]
    IN IF caller.fn = "negamax" THEN caller.alpha ELSE -(caller.beta)

QuietBeta ==
    LET caller == stack[Len(stack) - 1]
    IN IF caller.fn = "negamax" THEN caller.beta ELSE -(caller.alpha)

\* search_until_quiet, called with alpha < beta, takes the step `pc`
QuietSteps(pc) ==
    /\ stack # << >>
    /\ Top.fn = "quiet" /\ Top.pc = pc
    /\ stack' # stack
    /\ QuietAlpha < QuietBeta

QuietReturns == Len(stack') = Len(stack) - 1

QuietCheckmated(b) == is_in_check(b) /\ generate_moves(b) = << >>

(***************************************************************************)
(* C28: search_until_quiet called with alpha < beta returns                *)
(* -CHECKMATE_SCORE when the side to move is in check without a legal      *)
(* move; otherwise it returns beta as soon as stand_pat >= beta or a child *)
(* score >= beta, and else the maximum of alpha, stand_pat and the child   *)
(* scores (its alpha starts at max(alpha, stand_pat), is raised to every   *)
(* child score above it and is returned after the loop), so every result   *)
(* that is not the checkmate score lies in [alpha, beta].                  *)
(***************************************************************************)
C28_QuiescenceFailHard ==
    [][/\ QuietSteps("enter") =>
             LET stand_pat == evaluate(Top.board)
             IN IF QuietCheckmated(Top.board)
                THEN QuietReturns /\ Returned.score = -CHECKMATE_SCORE
                ELSE IF stand_pat >= QuietBeta
                THEN QuietReturns /\ Returned.score = QuietBeta
                ELSE /\ ~QuietReturns
                     /\ stack'[Len(stack)].alpha = max(QuietAlpha, stand_pat)
                     /\ stack'[Len(stack)].beta = QuietBeta
       /\ QuietSteps("wait") =>
             LET score == -(ret[1].score)
             IN IF score >= QuietBeta
                THEN QuietReturns /\ Returned.score = QuietBeta
                ELSE /\ ~QuietReturns
                     /\ stack'[Len(stack)].alpha = max(Top.alpha, score)
                     /\ stack'[Len(stack)].beta = QuietBeta
       /\ QuietSteps("loop") =>
             \/ ~QuietReturns /\ Top.i <= Len(Top.moves)
             \/ /\ QuietReturns
                /\ Returned.score = Top.alpha
                /\ Top.alpha >= max(QuietAlpha, evaluate(Top.board))
                /\ Top.alpha < QuietBeta
       /\ (stack # << >> /\ Top.fn = "quiet" /\ QuietAlpha < QuietBeta /\ QuietReturns
             /\ ~QuietCheckmated(Top.board)) =>
             (QuietAlpha <= Returned.score /\ Returned.score <= QuietBeta)
      ]_vars

\* search_until_quiet stands at the head of its loop after a child score
\* has raised its alpha above the alpha it was called with and above
\* stand_pat, below beta.
C28_Witness ==
    /\ Len(stack) >= 2
    /\ Top.fn = "quiet" /\ Top.pc = "loop" /\ Top.i > 1
    /\ QuietAlpha < QuietBeta
    /\ Top.alpha > max(QuietAlpha, evaluate(Top.board))
    /\ Top.alpha < Top.beta

\* the place of a move in the order C29 states: the table's best move, the
\* captures, the killers of the ply, the promotions, the remaining moves
OrderClass(mv) ==
    IF clast.tt_move = Some(mv) THEN 1
    ELSE IF is_capture(mv) THEN 2
    ELSE IF is_killer(killer_moves, mv, clast.ply) THEN 3
    ELSE IF mv.move_type = "Promotion" THEN 4
    ELSE 5

\* the MVV-LVA score of a capture: an en passant capture is pawn takes pawn
MvvLva(b, mv) ==
    IF mv.move_type = "EnPassant"
    THEN MVV_LVA_SCORES[Piece_index("Pawn") + 1][Piece_index("Pawn") + 1]
    ELSE calculate_capture_score(b, mv)[1]

(***************************************************************************)
(* C29: order_moves arranges a node's moves so that the table's best move, *)
(* when it is among them, comes first, then every capture in descending    *)
(* MVV-LVA score, then the killer moves of this ply, then the promotions,  *)
(* then all remaining moves.                                               *)
(***************************************************************************)
C29_OrderOfMoves ==
    clast.op = "order_moves" =>
        LET ordered == clast.ordered
            moves == generate_moves(clast.board)
        IN /\ Len(ordered) = Len(moves)
           /\ \A i \in 1 .. Len(moves) : IsAmong(moves[i], ordered)
           /\ \A i \in 1 .. Len(ordered), j \in 1 .. Len(ordered) :
                 i < j =>
                    /\ OrderClass(ordered[i]) <= OrderClass(ordered[j])
                    /\ (OrderClass(ordered[i]) = 2 /\ OrderClass(ordered[j]) = 2) =>
                          MvvLva(clast.board, ordered[i]) >= MvvLva(clast.board, ordered[j])

\* the kinds of the piece a capture takes and of the piece that takes it
Victim(b, mv) == get_piece_at(b, mv.to)[1]

Attacker(b, mv) == get_piece_at(b, mv.from)[1]

(***************************************************************************)
(* C30: among the captures order_moves orders by MVV-LVA (the table's best *)
(* move aside), a capture of a queen comes before a capture of a rook      *)
(* whatever the attackers, and of two captures of the same victim kind the *)
(* capture by a pawn comes before the capture by a queen.                  *)
(***************************************************************************)
C30_QueenVictimFirst ==
    clast.op = "order_moves" =>
        LET ordered == clast.ordered
            b == clast.board
            scored(mv) == mv.move_type = "Capture" /\ clast.tt_move # Some(mv)
        IN \A i \in 1 .. Len(ordered), j \in 1 .. Len(ordered) :
              (scored(ordered[i]) /\ scored(ordered[j])) =>
                 /\ (Victim(b, ordered[i]) = "Queen" /\ Victim(b, ordered[j]) = "Rook") => i < j
                 /\ (/\ Victim(b, ordered[i]) = Victim(b, ordered[j])
                     /\ Attacker(b, ordered[i]) = "Pawn"
                     /\ Attacker(b, ordered[j]) = "Queen") => i < j


(***************************************************************************)
(* C31: in the ordering of the main search an en passant capture gets a    *)
(* capture key, at most -1000, and so stands before every killer move,     *)
(* promotion and other quiet move of the node (the table's best move       *)
(* aside).                                                                 *)
(***************************************************************************)
C31_EnPassantCaptureKey ==
    clast.op = "order_moves" =>
        LET ordered == clast.ordered
            key(mv) == order_moves_key(killer_moves, clast.board, clast.tt_move, clast.ply, mv)
        IN \A i \in 1 .. Len(ordered) :
              (ordered[i].move_type = "EnPassant" /\ clast.tt_move # Some(ordered[i])) =>
                 /\ key(ordered[i]) <= -1000
                 /\ \A j \in 1 .. Len(ordered) :
                       (~is_capture(ordered[j]) /\ clast.tt_move # Some(ordered[j])) => i < j


\* negamax stands after a child's return with a move that raises alpha to
\* at least beta
NegamaxCutsOff ==
    /\ stack # << >>
    /\ Top.fn = "negamax" /\ Top.pc = "wait" /\ ret # None
    /\ Top.depth >= 1
    /\ max(Top.alpha, -(ret[1].score)) >= Top.beta

\* the move negamax is searching at the top of the stack
CutMove == Top.moves[Top.i]

(***************************************************************************)
(* C32: the killer table changes during a search only when a move of type  *)
(* Quiet raises alpha to at least beta in negamax, and then only at that   *)
(* node's ply, where the move becomes the primary killer and the former    *)
(* primary killer the secondary one; every move in the table has type      *)
(* Quiet (no capture, en passant capture, castle or promotion is stored);  *)
(* and a cutoff by a Quiet move always leaves it the primary killer of its *)
(* ply.                                                                    *)
(***************************************************************************)
C32_KillersAreQuietCutoffs ==
    [][ /\ killer_moves' # killer_moves =>
              /\ NegamaxCutsOff
              /\ CutMove.move_type = "Quiet"
              /\ Len(stack') = Len(stack) - 1
              /\ \A p \in 0 .. MAX_DEPTH - 1 :
                    p # Top.ply => killer_moves'[p] = killer_moves[p]
              /\ killer_moves'[Top.ply] = <<Some(CutMove), killer_moves[Top.ply][1]>>
        /\ (NegamaxCutsOff /\ CutMove.move_type = "Quiet" /\ stack' # stack) =>
              killer_moves'[Top.ply][1] = Some(CutMove)
        /\ \A p \in 0 .. MAX_DEPTH - 1, i \in 1 .. KILLERS_PER_PLY :
              killer_moves'[p][i] # None => killer_moves'[p][i][1].move_type = "Quiet"
      ]_vars

\* a node's ply holds two killers, both of type Quiet, while another node
\* stands at a cutoff by a move that is not Quiet
C32_Witness ==
    /\ \E p \in 0 .. MaxDepth : killer_moves[p][1] # None /\ killer_moves[p][2] # None
    /\ NegamaxCutsOff
    /\ CutMove.move_type # "Quiet"


\* the step calls negamax or search_until_quiet: an activation is added
NodeEntered == Len(stack') > Len(stack)

(***************************************************************************)
(* C33 as stated: once the timer has expired during find_best_move, no     *)
(* further negamax or quiescence node is entered and no further iteration  *)
(* is started.                                                             *)
(***************************************************************************)
C33_NoNodeAfterExpiry ==
    [][ TimerExpired => ~NodeEntered ]_vars

(***************************************************************************)
(* C33: once the timer has expired, every move loop of negamax and of      *)
(* search_until_quiet that comes to its head ends and its node returns, no *)
(* iteration is started and find_best_move returns from the head of its    *)
(* loop; the only node still entered is the quiescence node of a negamax   *)
(* node at depth 0 that was called before the timer expired.               *)
(***************************************************************************)
C33_LoopsEndAfterExpiry ==
    [][ TimerExpired =>
           /\ NodeEntered =>
                 /\ stack # << >>
                 /\ Top.fn = "negamax" /\ Top.pc = "enter" /\ Top.depth = 0
                 /\ stack'[Len(stack')].fn = "quiet"
                 /\ Len(stack') = Len(stack) + 1
           /\ (stack # << >> /\ Top.pc = "loop" /\ stack' # stack) =>
                 Len(stack') = Len(stack) - 1
           /\ (fbm.pc = "iter_head" /\ fbm' # fbm) => fbm'.pc = "done"
      ]_vars

\* the timer has expired while a quiescence node below the root stands at
\* the head of its move loop with moves left to search
C33_Witness ==
    /\ TimerExpired
    /\ Len(stack) >= 2
    /\ Top.fn = "quiet" /\ Top.pc = "loop"
    /\ Top.i <= Len(Top.moves)


(***************************************************************************)
(* C34: every transposition-table entry negamax writes comes from a node   *)
(* whose move loop ended by exhausting its moves or by a beta cutoff,      *)
(* never from a node whose loop was cut short by the expired timer.        *)
(***************************************************************************)
C34_NoPartialEntries ==
    [][ (NegamaxFinishes /\ tt' # tt) =>
           \/ Top.pc = "wait"
           \/ Top.i > Len(Top.moves)
      ]_vars


(***************************************************************************)
(* C35: at every negamax node of iteration d, depth + ply = d and depth is *)
(* never below 0 (the recursion with depth - 1 is made only by a node with *)
(* depth >= 1); so a move that cuts off is stored as a killer at a ply     *)
(* below the iteration's depth, hence below 64 when max_depth <= 64, where *)
(* the killer table has a row for it.                                      *)
(***************************************************************************)
C35_DepthPlusPly ==
    /\ \A k \in 1 .. Len(stack) :
          stack[k].fn = "negamax" =>
             /\ stack[k].depth + stack[k].ply = fbm.current_depth
             /\ stack[k].depth >= 0
             /\ stack[k].ply = Cardinality({ j \in 1 .. k - 1 : stack[j].fn = "negamax" })
             /\ (stack[k].pc = "loop" \/ stack[k].moves # << >>) => stack[k].depth >= 1
    /\ stack # << >> => fbm.current_depth <= fbm.max_depth
    /\ NegamaxCutsOff =>
          /\ Top.ply < fbm.max_depth
          /\ fbm.max_depth <= MAX_DEPTH => is_valid_ply(Top.ply)

\* a Quiet move cuts off at the last ply negamax loops at in its iteration,
\* two plies or more below the root
C35_Witness ==
    /\ NegamaxCutsOff
    /\ CutMove.move_type = "Quiet"
    /\ Top.ply = fbm.current_depth - 1
    /\ Top.depth = 1
    /\ Top.ply >= 2


\* an i32 whose negation is an i32
Negatable(x) == -I32_MAX <= x /\ x <= I32_MAX

\* a score of the search: an evaluation or an infinity of the window, or a
\* mate score, CHECKMATE_SCORE less a depth (u8), of either sign
ScoreShape(x) ==
    /\ Negatable(x)
    /\ \/ Abs(x) <= 32767
       \/ CHECKMATE_SCORE - 255 <= Abs(x) /\ Abs(x) <= CHECKMATE_SCORE

(***************************************************************************)
(* C36: no i32 overflow occurs in the search.  Every window bound, best    *)
(* score, returned score and stored score lies within +/-32767 or is a     *)
(* mate score within +/-CHECKMATE_SCORE, so each negation negamax and      *)
(* search_until_quiet perform (-alpha, -beta, the child's score) is an     *)
(* i32, i32::MIN never arises, and -CHECKMATE_SCORE + depth is an i32 for  *)
(* every depth.                                                            *)
(***************************************************************************)
C36_NoOverflow ==
    /\ \A k \in 1 .. Len(stack) :
          /\ Abs(stack[k].alpha) <= 32767 /\ Abs(stack[k].beta) <= 32767
          /\ Abs(stack[k].original_alpha) <= 32767
          /\ ScoreShape(stack[k].best.score)
    /\ ret # None => ScoreShape(ret[1].score)
    /\ ScoreShape(fbm.best_score)
    /\ \A slot \in 0 .. TableSlots - 1 : tt[slot] # None => ScoreShape(tt[slot][1].eval)
    /\ \A k \in 1 .. Len(iters) : ScoreShape(iters[k].score)
    /\ \A d \in 0 .. 255 :
          /\ -I32_MAX - 1 <= -CHECKMATE_SCORE + d
          /\ Negatable(-CHECKMATE_SCORE + d)

\* negamax is about to negate a mate score its callee returned: the callee's
\* side delivers mate, and the score lies beyond the window's infinities
C36_Witness ==
    /\ Len(stack) >= 2
    /\ Top.fn = "negamax" /\ Top.pc = "wait" /\ ret # None
    /\ Top.depth >= 1
    /\ ret[1].score > 32767
    /\ -(ret[1].score) < Top.alpha


\* the value of a position to the side to move when only captures,
\* promotions and checks (every move when in check) are played on, each side
\* free to stop at the static evaluation
RECURSIVE Quiesce(_)
Quiesce(b) ==
    LET moves == IF is_in_check(b) THEN generate_moves(b) ELSE generate_quiescence_moves(b)
        RECURSIVE best(_, _)
        best(i, v) == IF i > Len(moves) THEN v
                      ELSE best(i + 1, max(v, -Quiesce(clone_with_move(b, moves[i]))))
    IN IF moves = << >> /\ is_in_check(b) THEN -CHECKMATE_SCORE
       ELSE best(1, evaluate(b))

\* the depth-limited negamax value of a position: the maximum over its moves
\* of the negated value of the position after the move, one ply shallower
RECURSIVE Minimax(_, _)
Minimax(b, depth) ==
    LET moves == generate_moves(b)
        RECURSIVE best(_, _)
        best(i, v) == IF i > Len(moves) THEN v
                      ELSE best(i + 1, max(v, -Minimax(clone_with_move(b, moves[i]), depth - 1)))
    IN IF depth = 0 THEN Quiesce(b)
       ELSE IF moves = << >>
            THEN IF is_in_check(b) THEN -CHECKMATE_SCORE + depth ELSE 0
       ELSE best(1, NEGATIVE_INFINITY)

\* the root activation of negamax returns to search_position
RootReturns == Len(stack) = 1 /\ stack' = << >>

(***************************************************************************)
(* C37: on the tree positions, where every transposition probe misses, no  *)
(* timer is set and every leaf and terminal score lies strictly between    *)
(* NEGATIVE_INFINITY and INFINITY, negamax at the root with the full       *)
(* window returns the depth-limited negamax value of the tree and a root   *)
(* move that attains it, in every iteration and for both orders of the     *)
(* root's moves.                                                           *)
(***************************************************************************)
C37_PruningKeepsValue ==
    [][ /\ NegamaxEnters =>
              probe_transposition_table(tt, Top.board, Top.depth, Top.alpha, Top.beta).result = None
        /\ RootReturns =>
              LET value == Minimax(fbm.board, fbm.current_depth)
              IN /\ NEGATIVE_INFINITY < value /\ value < INFINITY
                 /\ Returned.score = value
                 /\ Returned.best_move # None
                 /\ IsAmong(Returned.best_move[1], generate_moves(fbm.board))
                 /\ -Minimax(clone_with_move(fbm.board, Returned.best_move[1]),
                             fbm.current_depth - 1) = value
      ]_vars

\* the third iteration on a tree root has returned the tree's value, a node
\* below the root having cut off with a move left unsearched
C37_Witness ==
    /\ fbm.board \in TreeRoots
    /\ Len(iters) = 3
    /\ iters[3].score = Minimax(fbm.board, 3)
    /\ iters[3].score # iters[2].score
    /\ \E p \in 1 .. 2 : killer_moves[p][1] # None


\* the en passant captures the rules allow the side to move, the king's
\* safety aside
EnPassantCaptures(b) == { mv \in RulePawnMoves(b) : mv.move_type = "EnPassant" }

\* the pieces once the capturing pawn has left its from square, the captured
\* pawn has been removed and the capturing pawn stands on the target
AfterEnPassant(b, mv) ==
    LET victim == IF b.active_color = "White" THEN mv.to - 8 ELSE mv.to + 8
    IN [s \in Squares |->
           IF s = mv.from \/ s = victim THEN None
           ELSE IF s = mv.to THEN PieceOn(b.active_color, "Pawn")
           ELSE b.pieces[s]]

(***************************************************************************)
(* C38: an en passant capture is returned by generate_moves iff the        *)
(* mover's king is not attacked once the capturing pawn has left its from  *)
(* square, the captured pawn has been removed and the capturing pawn       *)
(* stands on the en passant target; no other en passant move is returned.  *)
(***************************************************************************)
C38_EnPassantLegality ==
    LET moves == MoveGenerator_generate_moves(chess)
    IN /\ \A mv \in EnPassantCaptures(chess) :
             IsAmong(mv, moves) <=> ~RuleInCheck(AfterEnPassant(chess, mv), chess.active_color)
       /\ \A i \in 1 .. Len(moves) :
             moves[i].move_type = "EnPassant" => moves[i] \in EnPassantCaptures(chess)


\* the number after the first occurrence of a keyword in a command line,
\* and a default when the keyword does not occur
ArgumentOf(parts, kw, default) ==
    IF \E i \in 1 .. Len(parts) - 1 : parts[i].kw = kw
    THEN parts[(CHOOSE i \in 1 .. Len(parts) - 1 :
                   /\ parts[i].kw = kw
                   /\ \A j \in 1 .. i - 1 : parts[j].kw # kw) + 1].num
    ELSE default

HasClock(parts) ==
    \E i \in 1 .. Len(parts) : parts[i].kw \in {"wtime", "btime", "winc", "binc"}

(***************************************************************************)
(* C39: for a go command with wtime/btime/winc/binc the time budget handed *)
(* to find_best_move is max(0, t - 5000) / 25 + inc milliseconds, t and    *)
(* inc being the remaining time and the increment of the side to move; a   *)
(* depth argument d is capped to min(d, 64), and the depth is 64 when the  *)
(* command has none.                                                       *)
(***************************************************************************)
C39_GoArguments ==
    (clast.op = "go" /\ fbm.pc \in {"iter_head", "searching"}) =>
        LET parts == clast.parts
            white == active_color(fbm.board) = "White"
            t == ArgumentOf(parts, IF white THEN "wtime" ELSE "btime", 0)
            inc == ArgumentOf(parts, IF white THEN "winc" ELSE "binc", 0)
        IN /\ HasClock(parts) =>
                 timer.time_limit = Some((max(0, t - 5000) \div 25) + inc)
           /\ fbm.max_depth = min(ArgumentOf(parts, "depth", 64), 64)


(***************************************************************************)
(* find_best_move without a time limit on the positions of the queen and   *)
(* the king, where the quiescence search follows checks and evasions.  The *)
(* search runs on one thread and is the only thing running, so each of its *)
(* steps is taken once it is enabled.                                      *)
(***************************************************************************)
\* Largest max_depth find_best_move is called with on these positions.
MaxCheckDepth == 3

SearchStep ==
    \/ IterHead /\ UNCHANGED <<mvars, cvars>>
    \/ NegamaxEnter /\ UNCHANGED <<mvars, cvars>>
    \/ NegamaxLoop /\ UNCHANGED <<mvars, cvars>>
    \/ NegamaxResume /\ UNCHANGED <<mvars, cvars>>
    \/ QuietEnter /\ UNCHANGED <<mvars, cvars>>
    \/ QuietLoop /\ UNCHANGED <<mvars, cvars>>
    \/ QuietResume /\ UNCHANGED <<mvars, cvars>>

ChecksNext ==
    \/ \E b \in CheckBoards, d \in 0 .. MaxCheckDepth :
          FindBestMove(b, d, None) /\ UNCHANGED <<mvars, cvars>>
    \/ SearchStep

SpecChecks == Init /\ [][ChecksNext]_vars /\ WF_vars(SearchStep)

\* the frames of search_until_quiet and of negamax on the call stack
QuietFrames == { i \in 1 .. Len(stack) : stack[i].fn = "quiet" }

NegamaxFrames == { i \in 1 .. Len(stack) : stack[i].fn = "negamax" }

\* C40: a find_best_move without a time limit runs at most max_depth
\* iterations, has at most current_depth + 1 calls of negamax open at a time
\* (depths current_depth down to 0), never has the same position twice on a
\* path of search_until_quiet calls, although these follow checks and, in
\* check, every evasion; and once started it returns
C40_FindBestMoveTerminates ==
    /\ [](timer.time_limit = None =>
            /\ Len(iters) <= fbm.max_depth
            /\ fbm.pc = "searching" => Cardinality(NegamaxFrames) <= fbm.current_depth + 1
            /\ \A i, j \in QuietFrames : i # j => stack[i].board # stack[j].board)
    /\ (fbm.pc = "iter_head" /\ timer.time_limit = None) ~> (fbm.pc = "done")

\* search_until_quiet has followed a check and an evasion of it below a
\* depth-0 node, in the last iteration of a search without a time limit
C40_Witness ==
    /\ timer.time_limit = None
    /\ fbm.current_depth = fbm.max_depth
    /\ \E i \in QuietFrames :
          /\ i + 2 \in QuietFrames
          /\ ~is_in_check(stack[i].board)
          /\ is_in_check(stack[i + 1].board)
          /\ ~is_in_check(stack[i + 2].board)

=============================================================================
